---- MODULE Spec2Model ----
(***************************************************************************)
(* Word-level model of the boundary-tag allocator of                       *)
(* Lab3-Memory/src/memmgr.c.  The data segment is an array of 8-byte words *)
(* indexed by byte address; tags, free-list pointers and payload data all  *)
(* live in that array, exactly as in the C code.  The first/next/best-fit  *)
(* variant Lab3-Memory/mj_memmgr.c is modelled over the same segment; its  *)
(* procedures carry the prefix mj_ where the two files share a name.       *)
(***************************************************************************)
EXTENDS Integers, Sequences, FiniteSets, TLC

\* ------------------------------------------------------------------ bounds
\* chunk size in units of BS (the source grows by 1<<16 bytes = 2048 * BS)
ChunkBlocks == 4
\* number of chunks the segment provider can hand out in total
MaxChunks == 3
\* width of size_t / unsigned long in bits
SizeBits == 11
\* number of calls a run of the client makes
MaxCalls == 6

\* ------------------------------------------------------- program constants
TYPE_SIZE == 8
ALLOC == 1
FREE == 0
STATUS_MASK == 7
BS == 32
NULL == 0
fp_Implicit == 1
fp_Explicit == 2

\* start address of the data segment handed out by the provider
DS_BASE == 1024

SizeMod == 2 ^ SizeBits
SIZE_MAX == SizeMod - 1
CHUNKSIZE == ChunkBlocks * BS
DS_LIMIT == DS_BASE + MaxChunks * CHUNKSIZE

\* values the words of fresh segment memory may hold (the source never
\* initialises them: the "???" areas of the layout diagram)
FreshVals == {0, 8}
\* words a client stores into its payload
DataVals == {37}
\* request sizes handed to mm_malloc / mm_realloc
ReqSizes == {16, 17, SIZE_MAX}
\* request sizes that no single chunk can hold
BigSizes == {200}
\* (nmemb, size) pairs handed to mm_calloc
CallocArgs == {<<2, 8>>, <<1, 3>>, <<(SizeMod \div 2) + 1, 2>>}

VARIABLES
  ds_fill,            \* provider: what its fresh memory holds
  mem,                \* the data segment: word address -> word
  ds_heap_start,      \* physical start of data segment
  ds_heap_brk,        \* physical end of data segment
  heap_start,         \* logical start of heap
  heap_end,           \* logical end of heap
  freelist_policy,    \* free list management policy
  exp_freelist_head,  \* head of the explicit free list
  mm_initialized,     \* initialized flag
  ap,                 \* mj_memmgr.c: the allocation policy get_free_block stands for
  next_block,         \* mj_memmgr.c: next block used by next-fit policy
  fault,              \* "none", or how the process ended
  live,               \* client side: the payload pointers it holds
  ncalls,             \* client side: number of calls made so far
  last                \* client side: the last call and what it returned

vars == <<ds_fill, mem, ds_heap_start, ds_heap_brk, heap_start, heap_end, freelist_policy,
          exp_freelist_head, mm_initialized, ap, next_block, fault, live, ncalls, last>>

\* ------------------------------------------------------------ word macros
WordsBelow(brk) == {a \in DS_BASE .. (brk - 1) : a % TYPE_SIZE = 0}

SIZE(v) == v - (v % (STATUS_MASK + 1))
STATUS(v) == v % (STATUS_MASK + 1)
PACK(size, status) == size + status

PREV_PTR(p) == p - TYPE_SIZE
NEXT_PTR(p) == p + TYPE_SIZE
NEXT_NEXT_PTR(p) == p + 2 * TYPE_SIZE

Valid(h, p) == p \in DOMAIN h.mem
GET(h, p) == IF Valid(h, p) THEN h.mem[p] ELSE 0
GET_SIZE(h, p) == SIZE(GET(h, p))
GET_STATUS(h, p) == STATUS(GET(h, p))

\* the process ends: a PANIC, or an access outside the data segment
Stop(h, why) == IF h.fault = "none" THEN [h EXCEPT !.fault = why] ELSE h
\* a read of the word at p
Touch(h, p) == IF Valid(h, p) THEN h ELSE Stop(h, "wild access")
PUT(h, p, v) ==
  IF h.fault # "none" THEN h
  ELSE IF Valid(h, p) THEN [h EXCEPT !.mem[p] = v]
  ELSE Stop(h, "wild access")

HDR2FTR(h, p) == p + GET_SIZE(h, p) - TYPE_SIZE
FTR2HDR(h, p) == p - GET_SIZE(h, p) + TYPE_SIZE
PREV_BLKP(h, p) == p - GET_SIZE(h, PREV_PTR(p))
NEXT_BLKP(h, p) == p + GET_SIZE(h, p)

NEXT_LIST_GET(h, p) == GET(h, NEXT_PTR(p))
PREV_LIST_GET(h, p) == GET(h, NEXT_NEXT_PTR(p))
NEXT_LIST_SET(h, bp, new_next) == PUT(h, NEXT_PTR(bp), new_next)
PREV_LIST_SET(h, bp, new_prev) == PUT(h, NEXT_NEXT_PTR(bp), new_prev)

\* the one element of a singleton set: One({e(x) : x \in {v}}) is e with x
\* standing for the value v
One(S) == CHOOSE r \in S : TRUE

SetHead(h, bp) == IF h.fault # "none" THEN h ELSE [h EXCEPT !.head = bp]
Ret(h, v) == [h EXCEPT !.ret = v]

\* ALIGN rounding to a multiple of 16 where the source rounds to 32
ALIGN_To16(size) ==
  (((((size + 2 * TYPE_SIZE - 1) % SizeMod) \div 16) + 1) * 16) % SizeMod

ALIGN(size) ==
  (((((size + 2 * TYPE_SIZE - 1) % SizeMod) \div 32) + 1) * 32) % SizeMod

\* ------------------------------------------------------- segment provider
\* ds_sbrk(CHUNKSIZE): grants the chunk while the call's budget lasts, and
\* refuses it otherwise
ds_sbrk(h) ==
  IF h.grants > 0 /\ h.brk + CHUNKSIZE <= DS_LIMIT
  THEN [h EXCEPT !.brk = h.brk + CHUNKSIZE,
                 !.grants = h.grants - 1,
                 !.mem = [a \in WordsBelow(h.brk + CHUNKSIZE) |->
                            IF a \in DOMAIN h.mem THEN h.mem[a] ELSE h.fill],
                 !.ret = h.brk]
  ELSE [h EXCEPT !.ret = -1, !.refused = TRUE]

\* --------------------------------------------------------------- mm_sbrk
\* mm_sbrk that fuses with a free last block without adding the chunk to
\* its size
mm_sbrk_KeepsOldSize(h) ==
  One({
    IF g.ret # h.brk THEN Ret(g, -1)
    ELSE One({
      IF GET_STATUS(h1, PREV_PTR(h.hend)) = FREE
      THEN Ret(PUT(PUT(h1, FTR2HDR(h1, PREV_PTR(h.hend)),
                       PACK(GET_SIZE(h1, PREV_PTR(h.hend)), FREE)),
                   PREV_PTR(h1.hend), PACK(GET_SIZE(h1, PREV_PTR(h.hend)), FREE)), 1)
      ELSE Ret(PUT(PUT(h1, h.hend, PACK(CHUNKSIZE, FREE)),
                   PREV_PTR(h1.hend), PACK(CHUNKSIZE, FREE)), 1)
      : h1 \in {PUT([g EXCEPT !.hend = g.brk - BS], g.brk - BS, 1)}})
    : g \in {ds_sbrk(h)}})

mm_sbrk(h) ==
  One({
    IF g.ret # h.brk THEN Ret(g, -1)
    ELSE One({
      LET old_heap_end == h.hend
          old_ftr == PREV_PTR(h.hend)
          new_size == GET_SIZE(h1, PREV_PTR(h.hend)) + CHUNKSIZE
      IN IF GET_STATUS(h1, old_ftr) = FREE
         THEN Ret(PUT(PUT(h1, FTR2HDR(h1, old_ftr), PACK(new_size, FREE)),
                      PREV_PTR(h1.hend), PACK(new_size, FREE)), 1)
         ELSE Ret(PUT(PUT(h1, old_heap_end, PACK(CHUNKSIZE, FREE)),
                      PREV_PTR(h1.hend), PACK(CHUNKSIZE, FREE)), 1)
      : h1 \in {PUT([g EXCEPT !.hend = g.brk - BS], g.brk - BS, 1)}})
    : g \in {ds_sbrk(h)}})

\* ------------------------------------------------ implicit best-fit search
\* the for loop of bf_get_free_block_implicit: [h, best_fit]
RECURSIVE imp_scan(_, _, _, _, _)
imp_scan(h, bp, size, best_fit, smallest_diff) ==
  IF ~Valid(h, bp) THEN [h |-> Stop(h, "wild access"), best_fit |-> best_fit]
  ELSE IF GET_SIZE(h, bp) = 0 THEN [h |-> h, best_fit |-> best_fit]
  ELSE IF GET_STATUS(h, bp) = 0 /\ GET_SIZE(h, bp) >= size
  THEN IF GET_SIZE(h, bp) - size = 0 THEN [h |-> h, best_fit |-> bp]
       ELSE IF GET_SIZE(h, bp) - size < smallest_diff
            THEN imp_scan(h, NEXT_BLKP(h, bp), size, bp, GET_SIZE(h, bp) - size)
            ELSE imp_scan(h, NEXT_BLKP(h, bp), size, best_fit, smallest_diff)
  ELSE imp_scan(h, NEXT_BLKP(h, bp), size, best_fit, smallest_diff)

RECURSIVE bf_get_free_block_implicit(_, _)
bf_get_free_block_implicit(h, size) ==
  One({
    IF r.h.fault # "none" THEN Ret(r.h, NULL)
    ELSE IF r.best_fit = NULL
    THEN One({
           IF g.ret = -1 \/ g.fault # "none" THEN Ret(g, NULL)
           ELSE bf_get_free_block_implicit(g, size)
           : g \in {mm_sbrk(h)}})
    ELSE Ret(h, r.best_fit)
    : r \in {imp_scan(h, h.hstart, size, NULL, SIZE_MAX)}})

\* ------------------------------------------------ explicit best-fit search
\* the for loop of bf_get_free_block_explicit: [h, best_fit]; a walk longer
\* than the segment has words is a cycle, on which the C loop never ends
RECURSIVE exp_scan(_, _, _, _, _, _)
exp_scan(h, bp, size, best_fit, smallest_diff, fuel) ==
  IF bp = NULL THEN [h |-> h, best_fit |-> best_fit]
  ELSE IF fuel = 0 THEN [h |-> Stop(h, "endless loop"), best_fit |-> best_fit]
  ELSE IF ~Valid(h, bp) THEN [h |-> Stop(h, "wild access"), best_fit |-> best_fit]
  ELSE IF GET_STATUS(h, bp) = FREE /\ GET_SIZE(h, bp) >= size
  THEN IF GET_SIZE(h, bp) - size = 0 THEN [h |-> h, best_fit |-> bp]
       ELSE IF ~Valid(h, NEXT_PTR(bp))
            THEN [h |-> Stop(h, "wild access"), best_fit |-> best_fit]
       ELSE IF GET_SIZE(h, bp) - size < smallest_diff
            THEN exp_scan(h, NEXT_LIST_GET(h, bp), size, bp, GET_SIZE(h, bp) - size,
                          fuel - 1)
            ELSE exp_scan(h, NEXT_LIST_GET(h, bp), size, best_fit, smallest_diff,
                          fuel - 1)
  ELSE IF ~Valid(h, NEXT_PTR(bp))
       THEN [h |-> Stop(h, "wild access"), best_fit |-> best_fit]
  ELSE exp_scan(h, NEXT_LIST_GET(h, bp), size, best_fit, smallest_diff, fuel - 1)

RECURSIVE bf_get_free_block_explicit(_, _)
bf_get_free_block_explicit(h, size) ==
  One({
    IF r.h.fault # "none" THEN Ret(r.h, NULL)
    ELSE IF r.best_fit = NULL
    THEN One({
           IF g.ret = -1 \/ g.fault # "none" THEN Ret(g, NULL)
           ELSE bf_get_free_block_explicit(g, size)
           : g \in {mm_sbrk(h)}})
    ELSE Ret(h, r.best_fit)
    : r \in {exp_scan(h, h.head, size, NULL, SIZE_MAX, Cardinality(DOMAIN h.mem))}})

\* the function pointer get_free_block set by mm_init
get_free_block(h, size) ==
  IF h.policy = fp_Implicit THEN bf_get_free_block_implicit(h, size)
  ELSE bf_get_free_block_explicit(h, size)

\* --------------------------------------------------- explicit free list
free_from_free_list(h, bp) ==
  IF ~Valid(h, NEXT_PTR(bp)) \/ ~Valid(h, NEXT_NEXT_PTR(bp))
  THEN Stop(h, "wild access")
  ELSE
    LET next_bp == NEXT_LIST_GET(h, bp)
        prev_bp == PREV_LIST_GET(h, bp)
    IN One({ One({ One({
         PREV_LIST_SET(NEXT_LIST_SET(h3, bp, NULL), bp, NULL)
         : h3 \in {IF next_bp # NULL THEN PREV_LIST_SET(h2, next_bp, prev_bp) ELSE h2}})
         : h2 \in {IF prev_bp # NULL THEN NEXT_LIST_SET(h1, prev_bp, next_bp) ELSE h1}})
         : h1 \in {IF bp = h.head THEN SetHead(h, next_bp) ELSE h}})

add_to_free_list(h, bp) ==
  One({
    SetHead(IF h.head # NULL THEN PREV_LIST_SET(h1, h.head, bp) ELSE h1, bp)
    : h1 \in {PREV_LIST_SET(NEXT_LIST_SET(h, bp, h.head), bp, NULL)}})

split(h, bp) ==
  IF ~Valid(h, NEXT_PTR(bp)) \/ ~Valid(h, NEXT_NEXT_PTR(bp)) \/ ~Valid(h, bp)
  THEN Stop(h, "wild access")
  ELSE
    LET next_ptr == NEXT_LIST_GET(h, bp)
        prev_ptr == PREV_LIST_GET(h, bp)
        new_bp == NEXT_BLKP(h, bp)
    IN One({ One({
         PREV_LIST_SET(NEXT_LIST_SET(h2, new_bp, next_ptr), new_bp, prev_ptr)
         : h2 \in {IF next_ptr # NULL THEN PREV_LIST_SET(h1, next_ptr, new_bp) ELSE h1}})
         : h1 \in {IF prev_ptr = NULL THEN SetHead(h, new_bp)
                   ELSE NEXT_LIST_SET(h, prev_ptr, new_bp)}})

\* ------------------------------------------------------------- coalescing
\* the tag pair of a free block of the given size, written at new_hdr
PutFreeTags(h, new_hdr, size) ==
  One({ PUT(h1, HDR2FTR(h1, new_hdr), PACK(size, FREE))
        : h1 \in {PUT(h, new_hdr, PACK(size, FREE))}})

imp_coalesce(h, bp) ==
  IF ~Valid(h, PREV_PTR(bp)) \/ ~Valid(h, bp)
     \/ ~Valid(h, PREV_BLKP(h, bp)) \/ ~Valid(h, NEXT_BLKP(h, bp))
  THEN Ret(Stop(h, "wild access"), NULL)
  ELSE
    LET prev_blk == PREV_BLKP(h, bp)
        next_blk == NEXT_BLKP(h, bp)
        prev_alloc == GET_STATUS(h, PREV_BLKP(h, bp)) = ALLOC
        next_alloc == GET_STATUS(h, NEXT_BLKP(h, bp)) = ALLOC
    IN IF prev_alloc /\ next_alloc
       THEN Ret(PutFreeTags(h, bp, GET_SIZE(h, bp)), bp)
       ELSE IF ~prev_alloc /\ next_alloc
       THEN Ret(PutFreeTags(h, prev_blk, GET_SIZE(h, bp) + GET_SIZE(h, prev_blk)),
                prev_blk)
       ELSE IF prev_alloc /\ ~next_alloc
       THEN Ret(PutFreeTags(h, bp, GET_SIZE(h, bp) + GET_SIZE(h, next_blk)), bp)
       ELSE Ret(PutFreeTags(h, prev_blk, GET_SIZE(h, bp)
                              + (GET_SIZE(h, prev_blk) + GET_SIZE(h, next_blk))),
                prev_blk)

\* exp_coalesce that never merges with the block before bp
exp_coalesce_IgnoresPrev(h, bp) ==
  IF ~Valid(h, bp) \/ ~Valid(h, NEXT_BLKP(h, bp))
  THEN Ret(Stop(h, "wild access"), NULL)
  ELSE IF GET_STATUS(h, NEXT_BLKP(h, bp)) = ALLOC
  THEN Ret(PutFreeTags(h, bp, GET_SIZE(h, bp)), bp)
  ELSE One({ Ret(PutFreeTags(h1, bp, GET_SIZE(h, bp) + GET_SIZE(h1, NEXT_BLKP(h, bp))), bp)
             : h1 \in {free_from_free_list(h, NEXT_BLKP(h, bp))}})

exp_coalesce(h, bp) ==
  IF ~Valid(h, PREV_PTR(bp)) \/ ~Valid(h, bp)
     \/ ~Valid(h, PREV_BLKP(h, bp)) \/ ~Valid(h, NEXT_BLKP(h, bp))
  THEN Ret(Stop(h, "wild access"), NULL)
  ELSE
    LET prev_blk == PREV_BLKP(h, bp)
        next_blk == NEXT_BLKP(h, bp)
        prev_alloc == GET_STATUS(h, PREV_BLKP(h, bp)) = ALLOC
        next_alloc == GET_STATUS(h, NEXT_BLKP(h, bp)) = ALLOC
        size == GET_SIZE(h, bp)
    IN IF prev_alloc /\ next_alloc
       THEN Ret(PutFreeTags(h, bp, size), bp)
       ELSE IF ~prev_alloc /\ next_alloc
       THEN \* the sizes are read after the neighbour has left the list
            One({ Ret(PutFreeTags(h1, prev_blk, size + GET_SIZE(h1, prev_blk)), prev_blk)
                  : h1 \in {free_from_free_list(h, prev_blk)}})
       ELSE IF prev_alloc /\ ~next_alloc
       THEN One({ Ret(PutFreeTags(h1, bp, size + GET_SIZE(h1, next_blk)), bp)
                  : h1 \in {free_from_free_list(h, next_blk)}})
       ELSE One({ Ret(PutFreeTags(h1, prev_blk, size + GET_SIZE(h1, prev_blk)
                                                  + GET_SIZE(h1, next_blk)), prev_blk)
                  : h1 \in {free_from_free_list(free_from_free_list(h, prev_blk),
                                                next_blk)}})

\* ------------------------------------------------------------- mm_malloc
\* the tag pair of an allocated block of the given size, written at bp
PutAllocTags(h, bp, size) ==
  One({ PUT(h1, HDR2FTR(h1, bp), PACK(size, ALLOC))
        : h1 \in {PUT(h, bp, PACK(size, ALLOC))}})

\* the split of mm_malloc and mm_realloc: bp allocated with adjusted_size,
\* the block after it free with remaining_size
PutSplitTags(h, bp, adjusted_size, remaining_size) ==
  One({ One({ PUT(h2, HDR2FTR(h2, NEXT_BLKP(h1, bp)), PACK(remaining_size, FREE))
              : h2 \in {PUT(h1, NEXT_BLKP(h1, bp), PACK(remaining_size, FREE))}})
        : h1 \in {PutAllocTags(h, bp, adjusted_size)}})

AdjustedSize(size) == IF ALIGN(size) < BS THEN BS ELSE ALIGN(size)

\* mm_malloc without its test for a request of 0 bytes
mm_malloc_NoZeroCheck(h, size) ==
  One({
    IF g.ret = NULL THEN Ret(g, NULL)
    ELSE IF GET_SIZE(g, g.ret) >= (AdjustedSize(size) + BS) % SizeMod
    THEN One({ Ret(IF h.policy = fp_Explicit THEN split(h4, g.ret) ELSE h4,
                   NEXT_PTR(g.ret))
               : h4 \in {PutSplitTags(g, g.ret, AdjustedSize(size),
                                      (GET_SIZE(g, g.ret) - AdjustedSize(size)) % SizeMod)}})
    ELSE IF GET_SIZE(g, g.ret) # AdjustedSize(size)
    THEN Ret(Stop(g, "PANIC: Payload Alignment error"), NULL)
    ELSE One({ Ret(IF h.policy = fp_Explicit THEN free_from_free_list(h2, g.ret) ELSE h2,
                   NEXT_PTR(g.ret))
               : h2 \in {PutAllocTags(g, g.ret, GET_SIZE(g, g.ret))}})
    : g \in {get_free_block(h, AdjustedSize(size))}})

mm_malloc(h, size) ==
  IF size = 0 THEN Ret(h, NULL)
  ELSE One({
    IF g.ret = NULL THEN Ret(g, NULL)
    ELSE
      LET adjusted_size == AdjustedSize(size)
          bp == g.ret
          block_size == GET_SIZE(g, g.ret)
          remaining_size == (GET_SIZE(g, g.ret) - AdjustedSize(size)) % SizeMod
      IN IF block_size >= (adjusted_size + BS) % SizeMod
         THEN \* Case 1: split the block
           One({ Ret(IF h.policy = fp_Explicit THEN split(h4, bp) ELSE h4, NEXT_PTR(bp))
                 : h4 \in {PutSplitTags(g, bp, adjusted_size, remaining_size)}})
         ELSE IF remaining_size # 0
         THEN Ret(Stop(g, "PANIC: Payload Alignment error"), NULL)
         ELSE \* Case 2: no split
           One({ Ret(IF h.policy = fp_Explicit THEN free_from_free_list(h2, bp) ELSE h2,
                     NEXT_PTR(bp))
                 : h2 \in {PutAllocTags(g, bp, block_size)}})
    : g \in {get_free_block(h, AdjustedSize(size))}})

\* ------------------------------------------------------ memset / memcpy
\* memset(p, 0, n) on a little-endian machine: whole words become 0, and the
\* low n % 8 bytes of the word that follows them
memset0(h, p, n) ==
  IF \E i \in 0 .. ((n + TYPE_SIZE - 1) \div TYPE_SIZE) - 1 : ~Valid(h, p + i * TYPE_SIZE)
  THEN Stop(h, "wild access")
  ELSE [h EXCEPT !.mem = [a \in DOMAIN h.mem |->
          IF a >= p /\ a + TYPE_SIZE <= p + n THEN 0
          ELSE IF a = p + (n \div TYPE_SIZE) * TYPE_SIZE /\ n % TYPE_SIZE # 0
               THEN h.mem[a] - (h.mem[a] % (256 ^ (n % TYPE_SIZE)))
               ELSE h.mem[a]]]

\* memcpy(dst, src, n), n a multiple of the word size
memcpy(h, dst, src, n) ==
  IF \E i \in 0 .. (n \div TYPE_SIZE) - 1 :
       ~Valid(h, dst + i * TYPE_SIZE) \/ ~Valid(h, src + i * TYPE_SIZE)
  THEN Stop(h, "wild access")
  ELSE [h EXCEPT !.mem = [a \in DOMAIN h.mem |->
          IF a >= dst /\ a < dst + n THEN h.mem[src + (a - dst)] ELSE h.mem[a]]]

\* ------------------------------------------------------------- mm_calloc
mm_calloc(h, nmemb, size) ==
  One({ IF g.ret # NULL /\ g.fault = "none"
        THEN memset0(g, g.ret, (nmemb * size) % SizeMod)
        ELSE g
        : g \in {mm_malloc(h, (nmemb * size) % SizeMod)}})

\* --------------------------------------------------------------- mm_free
mm_free(h, ptr) ==
  IF ptr = NULL THEN h
  ELSE IF ~Valid(h, PREV_PTR(ptr)) THEN Stop(h, "wild access")
  ELSE IF GET_STATUS(h, PREV_PTR(ptr)) = FREE
  THEN Stop(h, "PANIC: Double free detected")
  ELSE IF h.policy = fp_Implicit THEN imp_coalesce(h, PREV_PTR(ptr))
  ELSE One({ add_to_free_list(c, c.ret) : c \in {exp_coalesce(h, PREV_PTR(ptr))}})

\* ------------------------------------------------------------ mm_realloc
Path(h, p) == [h EXCEPT !.path = p]

\* Case 4 of mm_realloc with the old block freed although the allocation failed
realloc_relocate_FreesOnFailure(h, ptr, size) ==
  One({
    IF g.ret = NULL \/ g.fault # "none" THEN Path(Ret(mm_free(g, ptr), NULL), "relocate")
    ELSE Path(Ret(mm_free(memcpy(g, g.ret, PREV_PTR(ptr),
                                 GET_SIZE(h, PREV_PTR(ptr)) - 2 * TYPE_SIZE),
                          PREV_PTR(ptr)),
                  g.ret), "relocate")
    : g \in {mm_malloc(h, size)}})

\* Case 4 of mm_realloc: allocate a new block, copy, free the old one; cur is
\* PREV_PTR(ptr) and block_size is GET_SIZE(cur), read before the allocation
realloc_relocate(h, ptr, size) ==
  One({
    IF g.ret = NULL \/ g.fault # "none" THEN Path(Ret(g, NULL), "relocate")
    ELSE Path(Ret(mm_free(memcpy(g, g.ret, PREV_PTR(ptr),
                                 GET_SIZE(h, PREV_PTR(ptr)) - 2 * TYPE_SIZE),
                          PREV_PTR(ptr)),
                  g.ret), "relocate")
    : g \in {mm_malloc(h, size)}})

\* mm_realloc returning null for a size of 0 without freeing the block
mm_realloc_ZeroKeepsBlock(h, ptr, size) ==
  IF ptr = NULL THEN Path(mm_malloc(h, size), "malloc")
  ELSE IF size = 0 THEN Path(Ret(h, NULL), "free")
  ELSE IF ~Valid(h, PREV_PTR(ptr)) \/ ~Valid(h, PREV_PTR(PREV_PTR(ptr)))
          \/ ~Valid(h, NEXT_BLKP(h, PREV_PTR(ptr)))
  THEN Path(Ret(Stop(h, "wild access"), NULL), "none")
  ELSE
    LET cur == PREV_PTR(ptr)
        next_blk == NEXT_BLKP(h, PREV_PTR(ptr))
        block_size == GET_SIZE(h, PREV_PTR(ptr))
        new_size == AdjustedSize(size)
        total_size == GET_SIZE(h, PREV_PTR(ptr)) + GET_SIZE(h, NEXT_BLKP(h, PREV_PTR(ptr)))
        next_free == GET_STATUS(h, NEXT_BLKP(h, PREV_PTR(ptr))) = FREE
    IN IF (new_size + BS) % SizeMod <= block_size
       THEN \* Case 1: need splitting
         One({ Path(Ret(IF h.policy = fp_Implicit
                        THEN imp_coalesce(h4, NEXT_BLKP(h4, cur))
                        ELSE add_to_free_list(exp_coalesce(h4, NEXT_BLKP(h4, cur)),
                                              NEXT_BLKP(h4, cur)),
                        ptr), "shrink")
               : h4 \in {PutSplitTags(h, cur, new_size, block_size - new_size)}})
       ELSE IF new_size <= block_size
       THEN \* Case 2: new size <= block size without splitting
         Path(Ret(PutAllocTags(h, cur, new_size), ptr), "same")
       ELSE IF next_free /\ total_size >= new_size
       THEN \* Case 3: next block is free and large enough to merge
         One({
           IF (new_size + BS) % SizeMod <= total_size
           THEN \* Case 3-1: need to split
             One({ Path(Ret(IF h.policy = fp_Explicit
                            THEN add_to_free_list(h5, NEXT_BLKP(h5, cur)) ELSE h5,
                            ptr), "grow")
                   : h5 \in {PutSplitTags(h1, cur, new_size, total_size - new_size)}})
           ELSE \* Case 3-2: no need to split
             Path(Ret(PutAllocTags(h1, cur, new_size), ptr), "grow")
           : h1 \in {IF h.policy = fp_Explicit THEN free_from_free_list(h, next_blk)
                     ELSE h}})
       ELSE \* Case 4: look for another block
         realloc_relocate(h, ptr, size)

\* mm_realloc whose grow in place lists the grown block instead of the rest
mm_realloc_GrowListsOwnBlock(h, ptr, size) ==
  IF ptr = NULL THEN Path(mm_malloc(h, size), "malloc")
  ELSE IF size = 0 THEN Path(Ret(mm_free(h, ptr), NULL), "free")
  ELSE IF ~Valid(h, PREV_PTR(ptr)) \/ ~Valid(h, PREV_PTR(PREV_PTR(ptr)))
          \/ ~Valid(h, NEXT_BLKP(h, PREV_PTR(ptr)))
  THEN Path(Ret(Stop(h, "wild access"), NULL), "none")
  ELSE
    LET cur == PREV_PTR(ptr)
        next_blk == NEXT_BLKP(h, PREV_PTR(ptr))
        block_size == GET_SIZE(h, PREV_PTR(ptr))
        new_size == AdjustedSize(size)
        total_size == GET_SIZE(h, PREV_PTR(ptr)) + GET_SIZE(h, NEXT_BLKP(h, PREV_PTR(ptr)))
        next_free == GET_STATUS(h, NEXT_BLKP(h, PREV_PTR(ptr))) = FREE
    IN IF (new_size + BS) % SizeMod <= block_size
       THEN \* Case 1: need splitting
         One({ Path(Ret(IF h.policy = fp_Implicit
                        THEN imp_coalesce(h4, NEXT_BLKP(h4, cur))
                        ELSE add_to_free_list(exp_coalesce(h4, NEXT_BLKP(h4, cur)),
                                              NEXT_BLKP(h4, cur)),
                        ptr), "shrink")
               : h4 \in {PutSplitTags(h, cur, new_size, block_size - new_size)}})
       ELSE IF new_size <= block_size
       THEN \* Case 2: new size <= block size without splitting
         Path(Ret(PutAllocTags(h, cur, new_size), ptr), "same")
       ELSE IF next_free /\ total_size >= new_size
       THEN \* Case 3: next block is free and large enough to merge
         One({
           IF (new_size + BS) % SizeMod <= total_size
           THEN \* Case 3-1: need to split
             One({ Path(Ret(IF h.policy = fp_Explicit
                            THEN add_to_free_list(h5, cur) ELSE h5,
                            ptr), "grow")
                   : h5 \in {PutSplitTags(h1, cur, new_size, total_size - new_size)}})
           ELSE \* Case 3-2: no need to split
             Path(Ret(PutAllocTags(h1, cur, new_size), ptr), "grow")
           : h1 \in {IF h.policy = fp_Explicit THEN free_from_free_list(h, next_blk)
                     ELSE h}})
       ELSE \* Case 4: look for another block
         realloc_relocate(h, ptr, size)

mm_realloc(h, ptr, size) ==
  IF ptr = NULL THEN Path(mm_malloc(h, size), "malloc")
  ELSE IF size = 0 THEN Path(Ret(mm_free(h, ptr), NULL), "free")
  ELSE IF ~Valid(h, PREV_PTR(ptr)) \/ ~Valid(h, PREV_PTR(PREV_PTR(ptr)))
          \/ ~Valid(h, NEXT_BLKP(h, PREV_PTR(ptr)))
  THEN Path(Ret(Stop(h, "wild access"), NULL), "none")
  ELSE
    LET cur == PREV_PTR(ptr)
        next_blk == NEXT_BLKP(h, PREV_PTR(ptr))
        block_size == GET_SIZE(h, PREV_PTR(ptr))
        new_size == AdjustedSize(size)
        total_size == GET_SIZE(h, PREV_PTR(ptr)) + GET_SIZE(h, NEXT_BLKP(h, PREV_PTR(ptr)))
        next_free == GET_STATUS(h, NEXT_BLKP(h, PREV_PTR(ptr))) = FREE
    IN IF (new_size + BS) % SizeMod <= block_size
       THEN \* Case 1: need splitting
         One({ Path(Ret(IF h.policy = fp_Implicit
                        THEN imp_coalesce(h4, NEXT_BLKP(h4, cur))
                        ELSE add_to_free_list(exp_coalesce(h4, NEXT_BLKP(h4, cur)),
                                              NEXT_BLKP(h4, cur)),
                        ptr), "shrink")
               : h4 \in {PutSplitTags(h, cur, new_size, block_size - new_size)}})
       ELSE IF new_size <= block_size
       THEN \* Case 2: new size <= block size without splitting
         Path(Ret(PutAllocTags(h, cur, new_size), ptr), "same")
       ELSE IF next_free /\ total_size >= new_size
       THEN \* Case 3: next block is free and large enough to merge
         One({
           IF (new_size + BS) % SizeMod <= total_size
           THEN \* Case 3-1: need to split
             One({ Path(Ret(IF h.policy = fp_Explicit
                            THEN add_to_free_list(h5, NEXT_BLKP(h5, cur)) ELSE h5,
                            ptr), "grow")
                   : h5 \in {PutSplitTags(h1, cur, new_size, total_size - new_size)}})
           ELSE \* Case 3-2: no need to split
             Path(Ret(PutAllocTags(h1, cur, new_size), ptr), "grow")
           : h1 \in {IF h.policy = fp_Explicit THEN free_from_free_list(h, next_blk)
                     ELSE h}})
       ELSE \* Case 4: look for another block
         realloc_relocate(h, ptr, size)

\* -------------------------------------------------------------- mm_check
\* the while loop of mm_check from block p on: the process ends on a footer
\* that differs from its header, the traversal ends at a size of 0 or at the
\* first p >= heap_end, which is returned in ret
RECURSIVE check_walk(_, _)
check_walk(h, p) ==
  IF p >= h.hend THEN Ret(h, p)
  ELSE IF ~Valid(h, p) \/ ~Valid(h, NEXT_PTR(p)) \/ ~Valid(h, NEXT_NEXT_PTR(p))
          \/ ~Valid(h, HDR2FTR(h, p))
  THEN Ret(Stop(h, "wild access"), p)
  ELSE IF GET(h, HDR2FTR(h, p)) # GET(h, p)
  THEN Ret(Stop(h, "PANIC: mm_check"), p)
  ELSE IF GET_SIZE(h, p) = 0 THEN Ret(h, p)
  ELSE check_walk(h, p + GET_SIZE(h, p))

\* mm_check: "Block structure coherent." is printed if the traversal ended
\* at heap_end without error
mm_check(h) ==
  One({ Path(Ret(w, NULL),
             IF w.fault = "none" /\ w.ret = h.hend THEN "coherent" ELSE "not coherent")
        : w \in {check_walk(h, h.hstart)}})

\* --------------------------------------------------------------- mm_init
\* mm_init that leaves the list pointers of the first block as it found them
mm_init_NoListPointers(h, fp) ==
  IF fp \notin {fp_Implicit, fp_Explicit}
  THEN Stop([h EXCEPT !.policy = fp], "PANIC: Non supported freelist policy.")
  ELSE IF h.dsstart # h.brk
  THEN Stop([h EXCEPT !.policy = fp], "PANIC: Heap not clean.")
  ELSE One({
    IF g.ret # h.brk THEN Stop(g, "PANIC: ds_sbrk error")
    ELSE One({
      One({ [(IF fp = fp_Explicit THEN SetHead(h4, h4.hstart) ELSE h4) EXCEPT !.init = 1]
            : h4 \in {PutFreeTags(PUT(PUT(h1, PREV_PTR(h1.hstart), 1), h1.hend, 1),
                                  h1.hstart, CHUNKSIZE - 2 * BS)}})
      : h1 \in {[g EXCEPT !.hstart = g.dsstart + BS, !.hend = g.brk - BS]}})
    : g \in {ds_sbrk([h EXCEPT !.policy = fp])}})

\* mm_init without the test for a clean heap
mm_init_NoCleanCheck(h, fp) ==
  IF fp \notin {fp_Implicit, fp_Explicit}
  THEN Stop([h EXCEPT !.policy = fp], "PANIC: Non supported freelist policy.")
  ELSE One({
    IF g.ret # h.brk THEN Stop(g, "PANIC: ds_sbrk error")
    ELSE One({
      One({ [(IF fp = fp_Explicit
              THEN PREV_LIST_SET(NEXT_LIST_SET(SetHead(h4, h4.hstart), h4.hstart, NULL),
                                 h4.hstart, NULL)
              ELSE h4) EXCEPT !.init = 1]
            : h4 \in {PutFreeTags(PUT(PUT(h1, PREV_PTR(h1.hstart), 1), h1.hend, 1),
                                  h1.hstart, CHUNKSIZE - 2 * BS)}})
      : h1 \in {[g EXCEPT !.hstart = g.dsstart + BS, !.hend = g.brk - BS]}})
    : g \in {ds_sbrk([h EXCEPT !.policy = fp])}})

mm_init(h, fp) ==
  IF fp \notin {fp_Implicit, fp_Explicit}
  THEN Stop([h EXCEPT !.policy = fp], "PANIC: Non supported freelist policy.")
  ELSE IF h.dsstart # h.brk
  THEN Stop([h EXCEPT !.policy = fp], "PANIC: Heap not clean.")
  ELSE One({
    IF g.ret # h.brk THEN Stop(g, "PANIC: ds_sbrk error")
    ELSE One({
      One({ [(IF fp = fp_Explicit
              THEN PREV_LIST_SET(NEXT_LIST_SET(SetHead(h4, h4.hstart), h4.hstart, NULL),
                                 h4.hstart, NULL)
              ELSE h4) EXCEPT !.init = 1]
            : h4 \in {PutFreeTags(PUT(PUT(h1, PREV_PTR(h1.hstart), 1), h1.hend, 1),
                                  h1.hstart, CHUNKSIZE - 2 * BS)}})
      : h1 \in {[g EXCEPT !.hstart = g.dsstart + BS, !.hend = g.brk - BS]}})
    : g \in {ds_sbrk([h EXCEPT !.policy = fp])}})

\* ============================================================ mj_memmgr.c
\* the procedures of Lab3-Memory/mj_memmgr.c, over heap records that carry
\* ap and next_block
ap_FirstFit == 1
ap_NextFit == 2
ap_BestFit == 3

HDR2NEXTHDR(h, p) == p + GET_SIZE(h, p)

\* round up (size + 16) to 32, in size_t
mj_newsize(size) ==
  (((((size + 2 * TYPE_SIZE - 1) % SizeMod) \div 32) + 1) * 32) % SizeMod

\* ------------------------------------------------------ mm_sbrk (mj)
mj_mm_sbrk(h) ==
  One({
    IF g.ret # h.brk THEN Ret(g, -1)
    ELSE One({
      Ret(IF GET_STATUS(s, PREV_PTR(h.hend)) = FREE
          THEN PUT(PUT(s, FTR2HDR(s, PREV_PTR(h.hend)),
                       PACK((GET_SIZE(s, PREV_PTR(h.hend)) + CHUNKSIZE) % SizeMod, FREE)),
                   PREV_PTR(s.hend),
                   PACK((GET_SIZE(s, PREV_PTR(h.hend)) + CHUNKSIZE) % SizeMod, FREE))
          ELSE PUT(PUT(s, h.hend, PACK(CHUNKSIZE, FREE)),
                   PREV_PTR(s.hend), PACK(CHUNKSIZE, FREE)),
          0)
      : s \in {PUT(PUT([g EXCEPT !.hstart = g.dsstart + BS, !.hend = g.brk - BS],
                       PREV_PTR(g.dsstart + BS), 1),
                   g.brk - BS, 1)}})
    : g \in {ds_sbrk(h)}})

\* ---------------------------------------------- block allocation policies
\* while (ptr < limit): ret is the first free block of at least size bytes
\* from ptr on, NULL if the loop runs out; a block of size 0 that does not
\* fit keeps the loop where it is
RECURSIVE mj_scan(_, _, _, _)
mj_scan(h, ptr, limit, size) ==
  IF ptr >= limit THEN Ret(h, NULL)
  ELSE IF ~Valid(h, ptr) THEN Ret(Stop(h, "wild access"), NULL)
  ELSE IF GET_STATUS(h, ptr) = FREE /\ GET_SIZE(h, ptr) >= size THEN Ret(h, ptr)
  ELSE IF GET_SIZE(h, ptr) = 0 THEN Ret(Stop(h, "endless loop"), NULL)
  ELSE mj_scan(h, HDR2NEXTHDR(h, ptr), limit, size)

RECURSIVE ff_get_free_block(_, _)
ff_get_free_block(h, size) ==
  One({
    IF s.fault # "none" \/ s.ret # NULL THEN s
    ELSE One({ IF g.ret = -1 \/ g.fault # "none" THEN Ret(g, NULL)
               ELSE ff_get_free_block(g, size)
               : g \in {mj_mm_sbrk(h)}})
    : s \in {mj_scan(h, h.hstart, h.hend, size)}})

RECURSIVE nf_get_free_block(_, _)
nf_get_free_block(h, size) ==
  One({
    IF s1.fault # "none" THEN s1
    ELSE IF s1.ret # NULL THEN [s1 EXCEPT !.next_block = s1.ret]
    ELSE One({
      IF s2.fault # "none" THEN s2
      ELSE IF s2.ret # NULL THEN [s2 EXCEPT !.next_block = s2.ret]
      ELSE One({ IF g.ret = -1 \/ g.fault # "none" THEN Ret(g, NULL)
                 ELSE nf_get_free_block(g, size)
                 : g \in {mj_mm_sbrk(h)}})
      : s2 \in {mj_scan(h, h.hstart, h.next_block, size)}})
    : s1 \in {mj_scan(h, h.next_block, h.hend, size)}})

\* the while loop of bf_get_free_block: ret is the first block of exactly
\* size bytes, or the first of the smallest free blocks above it
RECURSIVE mj_bf_scan(_, _, _, _, _)
mj_bf_scan(h, ptr, size, best_ptr, best_size) ==
  IF ptr >= h.hend THEN Ret(h, best_ptr)
  ELSE IF ~Valid(h, ptr) THEN Ret(Stop(h, "wild access"), NULL)
  ELSE IF GET_STATUS(h, ptr) = FREE /\ GET_SIZE(h, ptr) = size THEN Ret(h, ptr)
  ELSE IF GET_SIZE(h, ptr) = 0 THEN Ret(Stop(h, "endless loop"), NULL)
  ELSE IF GET_STATUS(h, ptr) = FREE /\ GET_SIZE(h, ptr) >= size
          /\ GET_SIZE(h, ptr) < best_size
  THEN mj_bf_scan(h, HDR2NEXTHDR(h, ptr), size, ptr, GET_SIZE(h, ptr))
  ELSE mj_bf_scan(h, HDR2NEXTHDR(h, ptr), size, best_ptr, best_size)

RECURSIVE bf_get_free_block(_, _)
bf_get_free_block(h, size) ==
  One({
    IF s.fault # "none" \/ s.ret # NULL THEN s
    ELSE One({ IF g.ret = -1 \/ g.fault # "none" THEN Ret(g, NULL)
               ELSE bf_get_free_block(g, size)
               : g \in {mj_mm_sbrk(h)}})
    : s \in {mj_bf_scan(h, h.hstart, size, NULL, SIZE_MAX)}})

\* the call through the function pointer get_free_block
mj_get_free_block(h, size) ==
  IF h.ap = ap_FirstFit THEN ff_get_free_block(h, size)
  ELSE IF h.ap = ap_NextFit THEN nf_get_free_block(h, size)
  ELSE bf_get_free_block(h, size)

\* ------------------------------------------------------ mm_malloc (mj)
\* the tags mm_malloc writes into the free block blk of oldsize bytes whose
\* footer is old_ftr
mj_place(h, blk, newsize, oldsize, old_ftr) ==
  One({
    One({
      IF (oldsize - newsize) % SizeMod >= 32
      THEN PUT(PUT(g2, NEXT_PTR(HDR2FTR(g1, blk)),
                   PACK((oldsize - newsize) % SizeMod, FREE)),
               old_ftr, PACK((oldsize - newsize) % SizeMod, FREE))
      ELSE IF (oldsize - newsize) % SizeMod # 0
      THEN Stop(g2, "PANIC: not 32 byte aligned")
      ELSE g2
      : g2 \in {PUT(g1, HDR2FTR(g1, blk), PACK(newsize, ALLOC))}})
    : g1 \in {PUT(h, blk, PACK(newsize, ALLOC))}})

mj_mm_malloc(h, size) ==
  One({
    IF b.fault # "none" \/ b.ret = NULL THEN Ret(b, NULL)
    ELSE One({ Ret(g, IF g.fault = "none" THEN NEXT_PTR(b.ret) ELSE NULL)
               : g \in {mj_place(b, b.ret, mj_newsize(size), GET_SIZE(b, b.ret),
                                 HDR2FTR(b, b.ret))}})
    : b \in {mj_get_free_block(h, mj_newsize(size))}})

\* ------------------------------------------------------ mm_calloc (mj)
mj_mm_calloc(h, nmemb, size) ==
  One({ IF g.ret # NULL /\ g.fault = "none"
        THEN memset0(g, g.ret, (nmemb * size) % SizeMod)
        ELSE g
        : g \in {mj_mm_malloc(h, (nmemb * size) % SizeMod)}})

\* -------------------------------------------------------- mm_free (mj)
\* the four cases of mm_free for the block with header ptr
mj_coalesce(h, ptr, prev_ftr, next_hdr, size) ==
  IF GET_STATUS(h, prev_ftr) = ALLOC /\ GET_STATUS(h, next_hdr) = ALLOC
  THEN One({ PUT(g, HDR2FTR(g, ptr), PACK(size, FREE))
             : g \in {PUT(h, ptr, PACK(size, FREE))}})
  ELSE IF GET_STATUS(h, prev_ftr) = ALLOC /\ GET_STATUS(h, next_hdr) = FREE
  THEN One({ PUT(g, HDR2FTR(g, next_hdr),
                 PACK((size + GET_SIZE(h, next_hdr)) % SizeMod, FREE))
             : g \in {PUT(h, ptr, PACK((size + GET_SIZE(h, next_hdr)) % SizeMod, FREE))}})
  ELSE IF GET_STATUS(h, prev_ftr) = FREE /\ GET_STATUS(h, next_hdr) = ALLOC
  THEN One({ PUT(g, HDR2FTR(g, ptr),
                 PACK((size + GET_SIZE(h, prev_ftr)) % SizeMod, FREE))
             : g \in {PUT(h, FTR2HDR(h, prev_ftr),
                          PACK((size + GET_SIZE(h, prev_ftr)) % SizeMod, FREE))}})
  ELSE One({ PUT(g, HDR2FTR(g, next_hdr),
                 PACK((size + GET_SIZE(h, prev_ftr) + GET_SIZE(h, next_hdr)) % SizeMod,
                      FREE))
             : g \in {PUT(h, FTR2HDR(h, prev_ftr),
                          PACK((size + GET_SIZE(h, prev_ftr) + GET_SIZE(h, next_hdr))
                               % SizeMod, FREE))}})

mj_mm_free(h, ptr) ==
  IF ptr = NULL THEN h
  ELSE IF ~Valid(h, PREV_PTR(ptr)) \/ ~Valid(h, PREV_PTR(PREV_PTR(ptr)))
          \/ ~Valid(h, HDR2NEXTHDR(h, PREV_PTR(ptr)))
  THEN Stop(h, "wild access")
  ELSE mj_coalesce(h, PREV_PTR(ptr), PREV_PTR(PREV_PTR(ptr)),
                   HDR2NEXTHDR(h, PREV_PTR(ptr)), GET_SIZE(h, PREV_PTR(ptr)))

\* ----------------------------------------------------- mm_realloc (mj)
\* case 1: the block at cur_hdr shrinks to newsize bytes
mj_realloc_shrink(h, cur_hdr, next_hdr, cursize, newsize) ==
  One({
    IF cursize - newsize >= 32
    THEN One({
           One({ PUT(g2, HDR2FTR(g2, NEXT_PTR(HDR2FTR(g, cur_hdr))), PACK(freesize, FREE))
                 : g2 \in {PUT(g, NEXT_PTR(HDR2FTR(g, cur_hdr)), PACK(freesize, FREE))}})
           : freesize \in {IF GET_STATUS(g, next_hdr) = FREE
                           THEN (cursize - newsize + GET_SIZE(g, next_hdr)) % SizeMod
                           ELSE cursize - newsize}})
    ELSE g
    : g \in {One({ PUT(g1, HDR2FTR(g1, cur_hdr), PACK(newsize, ALLOC))
                   : g1 \in {PUT(h, cur_hdr, PACK(newsize, ALLOC))}})}})

\* case 2: the block at cur_hdr grows to newsize bytes into the free block
\* after it, the two holding totsize bytes
mj_realloc_grow(h, cur_hdr, totsize, newsize) ==
  One({
    IF (totsize - newsize) % SizeMod >= 32
    THEN One({ PUT(g2, HDR2FTR(g2, NEXT_PTR(HDR2FTR(g, cur_hdr))),
                   PACK((totsize - newsize) % SizeMod, FREE))
               : g2 \in {PUT(g, NEXT_PTR(HDR2FTR(g, cur_hdr)),
                             PACK((totsize - newsize) % SizeMod, FREE))}})
    ELSE g
    : g \in {One({ PUT(g1, HDR2FTR(g1, cur_hdr), PACK(newsize, ALLOC))
                   : g1 \in {PUT(h, cur_hdr, PACK(newsize, ALLOC))}})}})

\* case 3: need to move
mj_realloc_move(h, ptr, size) ==
  One({
    IF g.ret = NULL \/ g.fault # "none" THEN Ret(g, NULL)
    ELSE Ret(mj_mm_free(memcpy(g, g.ret, ptr, GET_SIZE(g, PREV_PTR(ptr)) - 2 * TYPE_SIZE),
                        ptr),
             g.ret)
    : g \in {mj_mm_malloc(h, size)}})

mj_mm_realloc(h, ptr, size) ==
  IF ptr = NULL THEN Path(mj_mm_malloc(h, size), "malloc")
  ELSE IF size = 0 THEN Path(Ret(mj_mm_free(h, ptr), NULL), "free")
  ELSE IF ~Valid(h, PREV_PTR(ptr)) \/ ~Valid(h, HDR2NEXTHDR(h, PREV_PTR(ptr)))
  THEN Path(Ret(Stop(h, "wild access"), NULL), "none")
  ELSE IF mj_newsize(size) <= GET_SIZE(h, PREV_PTR(ptr))
  THEN Path(Ret(mj_realloc_shrink(h, PREV_PTR(ptr), HDR2NEXTHDR(h, PREV_PTR(ptr)),
                                  GET_SIZE(h, PREV_PTR(ptr)), mj_newsize(size)),
                ptr), "shrink")
  ELSE IF /\ GET_STATUS(h, HDR2NEXTHDR(h, PREV_PTR(ptr))) = FREE
          /\ (GET_SIZE(h, PREV_PTR(ptr)) + GET_SIZE(h, HDR2NEXTHDR(h, PREV_PTR(ptr))))
               % SizeMod >= mj_newsize(size)
  THEN Path(Ret(mj_realloc_grow(h, PREV_PTR(ptr),
                                (GET_SIZE(h, PREV_PTR(ptr))
                                 + GET_SIZE(h, HDR2NEXTHDR(h, PREV_PTR(ptr)))) % SizeMod,
                                mj_newsize(size)),
                ptr), "grow")
  ELSE Path(mj_realloc_move(h, ptr, size), "relocate")

\* -------------------------------------------------------- mm_init (mj)
mj_mm_init(h, apv) ==
  IF apv \notin {ap_FirstFit, ap_NextFit, ap_BestFit}
  THEN Stop(h, "PANIC: Invalid allocation policy.")
  ELSE IF h.dsstart # h.brk
  THEN Stop([h EXCEPT !.ap = apv], "PANIC: Heap not clean.")
  ELSE One({
    IF g.ret # h.brk THEN Stop(g, "PANIC: Something wrong when ds_sbrk")
    ELSE One({
      [PUT(PUT(PUT(PUT(s, PREV_PTR(s.hstart), 1), s.hend, 1),
               s.hstart, PACK(CHUNKSIZE - 64, FREE)),
           PREV_PTR(s.hend), PACK(CHUNKSIZE - 64, FREE)) EXCEPT !.init = 1]
      : s \in {[g EXCEPT !.hstart = g.dsstart + BS, !.hend = g.brk - BS,
                         !.next_block = g.dsstart + BS]}})
    : g \in {ds_sbrk([h EXCEPT !.ap = apv])}})

\* ------------------------------------------------------- the state machine
\* the allocator's globals and the segment as one record; g chunks are
\* granted by the provider during the call
Heap(g) ==
  [mem |-> mem, dsstart |-> ds_heap_start, brk |-> ds_heap_brk,
   hstart |-> heap_start, hend |-> heap_end, policy |-> freelist_policy,
   head |-> exp_freelist_head, init |-> mm_initialized, fault |-> fault,
   grants |-> g, fill |-> ds_fill, ret |-> NULL, path |-> "none",
   refused |-> FALSE]

Commit(h) ==
  /\ UNCHANGED <<ds_fill, ap, next_block>>
  /\ mem' = h.mem
  /\ ds_heap_start' = h.dsstart
  /\ ds_heap_brk' = h.brk
  /\ heap_start' = h.hstart
  /\ heap_end' = h.hend
  /\ freelist_policy' = h.policy
  /\ exp_freelist_head' = h.head
  /\ mm_initialized' = h.init
  /\ fault' = h.fault

Call(op, ptr, size, h) ==
  [op |-> op, ptr |-> ptr, size |-> size, ret |-> h.ret, path |-> h.path,
   refused |-> h.refused]


\* chunks the provider still has
ChunksLeft == (DS_LIMIT - ds_heap_brk) \div CHUNKSIZE

\* the client keeps to the contract: the allocator runs, and no pointer was
\* freed twice
Running == fault = "none" /\ last.op # "mm_free again" /\ ncalls < MaxCalls

Init ==
  /\ ds_fill \in FreshVals
  /\ mem = << >>
  /\ ds_heap_start = NULL
  /\ ds_heap_brk = NULL
  /\ heap_start = NULL
  /\ heap_end = NULL
  /\ freelist_policy = 0
  /\ exp_freelist_head = NULL
  /\ mm_initialized = 0
  /\ ap = 0
  /\ next_block = NULL
  /\ fault = "none"
  /\ live = {}
  /\ ncalls = 0
  /\ last = [op |-> "none", ptr |-> NULL, size |-> 0, ret |-> NULL, path |-> "none",
             refused |-> FALSE]

\* ds_heap_stat reports the segment of the provider, which is empty
InitCall ==
  /\ Running
  /\ ncalls' = ncalls + 1
  /\ mm_initialized = 0
  /\ \E fp \in {fp_Implicit, fp_Explicit, 3}, g \in {0, 1} :
       \E h \in {Ret(mm_init([Heap(g) EXCEPT !.dsstart = DS_BASE, !.brk = DS_BASE], fp),
                      NULL)} :
          /\ Commit(h)
          /\ last' = Call("mm_init", NULL, fp, h)
  /\ UNCHANGED live

MallocCall ==
  /\ Running
  /\ ncalls' = ncalls + 1
  /\ mm_initialized = 1
  /\ \E size \in ReqSizes, g \in 0 .. ChunksLeft :
       \E h \in {mm_malloc(Heap(g), size)} :
          /\ Commit(h)
          /\ last' = Call("mm_malloc", NULL, size, h)
          /\ live' = IF h.ret # NULL /\ h.fault = "none"
                     THEN live \cup {h.ret} ELSE live

CallocCall ==
  /\ Running
  /\ ncalls' = ncalls + 1
  /\ mm_initialized = 1
  /\ \E a \in CallocArgs, g \in 0 .. ChunksLeft :
       \E h \in {mm_calloc(Heap(g), a[1], a[2])} :
          /\ Commit(h)
          /\ last' = Call("mm_calloc", a[1], a[2], h)
          /\ live' = IF h.ret # NULL /\ h.fault = "none"
                     THEN live \cup {h.ret} ELSE live

ReallocCall ==
  /\ Running
  /\ ncalls' = ncalls + 1
  /\ mm_initialized = 1
  /\ \E ptr \in live \cup {NULL}, size \in ReqSizes \cup {0},
        g \in 0 .. ChunksLeft :
       \E h \in {mm_realloc(Heap(g), ptr, size)} :
          /\ Commit(h)
          /\ last' = Call("mm_realloc", ptr, size, h)
          /\ live' = IF h.fault # "none" THEN live
                     ELSE IF h.ret # NULL THEN (live \ {ptr}) \cup {h.ret}
                     ELSE IF size = 0 THEN live \ {ptr}
                     ELSE live

FreeCall ==
  /\ Running
  /\ ncalls' = ncalls + 1
  /\ mm_initialized = 1
  /\ \E ptr \in live \cup {NULL} :
       \E h \in {Ret(mm_free(Heap(0), ptr), NULL)} :
          /\ Commit(h)
          /\ last' = Call("mm_free", ptr, 0, h)
          /\ live' = IF h.fault # "none" THEN live ELSE live \ {ptr}

\* the client fills the payload it was just given: word i of the usable
\* payload (block size - 16 bytes) becomes v + 8 * i
WriteCall ==
  /\ fault = "none"
  /\ mm_initialized = 1
  /\ last.op \in {"mm_malloc", "mm_calloc", "mm_realloc"}
  /\ last.ret \in live
  /\ \E v \in DataVals :
       LET ptr == last.ret
           n == SIZE(mem[PREV_PTR(last.ret)]) - 2 * TYPE_SIZE
       IN /\ \A a \in ptr .. (ptr + n - 1) : a % TYPE_SIZE = 0 => a \in DOMAIN mem
          /\ mem' = [a \in DOMAIN mem |->
                       IF a >= ptr /\ a < ptr + n THEN v + (a - ptr) ELSE mem[a]]
  /\ last' = [op |-> "write", ptr |-> NULL, size |-> 0, ret |-> NULL, path |-> "none",
              refused |-> FALSE]
  /\ UNCHANGED <<ds_fill, ds_heap_start, ds_heap_brk, heap_start, heap_end,
                 freelist_policy, exp_freelist_head, mm_initialized, ap, next_block,
                 fault, live, ncalls>>

\* outside the contract: the pointer just freed is freed again
FreeAgainCall ==
  /\ Running
  /\ ncalls' = ncalls + 1
  /\ last.op = "mm_free"
  /\ last.ptr # NULL
  /\ \E h \in {Ret(mm_free(Heap(0), last.ptr), NULL)} :
        /\ Commit(h)
        /\ last' = Call("mm_free again", last.ptr, 0, h)
  /\ UNCHANGED live

Next ==
  \/ InitCall
  \/ MallocCall
  \/ CallocCall
  \/ ReallocCall
  \/ FreeCall
  \/ WriteCall

Spec == Init /\ [][Next]_vars

\* the same machine with a client that frees the pointer it just freed
NextDoubleFree == Next \/ FreeAgainCall

SpecDoubleFree == Init /\ [][NextDoubleFree]_vars

\* the client allocates and frees the block at once: p = mm_malloc(size);
\* mm_free(p)
MallocFreeCall ==
  /\ Running
  /\ ncalls' = ncalls + 1
  /\ mm_initialized = 1
  /\ \E size \in ReqSizes, g \in 0 .. ChunksLeft :
       \E h1 \in {mm_malloc(Heap(g), size)} :
         \E h \in {mm_free(h1, h1.ret)} :
            /\ Commit(h)
            /\ last' = Call("mm_malloc; mm_free", h1.ret, size, Ret(h, NULL))
  /\ UNCHANGED live

NextMallocFree == Next \/ MallocFreeCall

SpecMallocFree == Init /\ [][NextMallocFree]_vars

\* a client that makes successful mm_malloc calls and then frees the
\* pointers it got, in any order
MallocOkCall ==
  /\ last.op \in {"mm_init", "mm_malloc"}
  /\ MallocCall
  /\ last'.ret # NULL

FreeLiveCall ==
  /\ last.op \in {"mm_malloc", "mm_free"}
  /\ FreeCall
  /\ last'.ptr # NULL

NextMallocsThenFrees ==
  \/ InitCall
  \/ MallocOkCall
  \/ FreeLiveCall

SpecMallocsThenFrees == Init /\ [][NextMallocsThenFrees]_vars

\* another part of the program takes a chunk from the provider before mm_init
\* is called
ForeignSbrkCall ==
  /\ fault = "none"
  /\ ncalls = 0
  /\ ds_heap_brk = NULL
  /\ \E h \in {ds_sbrk([Heap(1) EXCEPT !.dsstart = DS_BASE, !.brk = DS_BASE])} :
        /\ Commit(h)
        /\ last' = Call("ds_sbrk", NULL, CHUNKSIZE, h)
  /\ UNCHANGED <<live, ncalls>>

\* mm_init on the empty segment of a provider nobody has used
InitCleanCall ==
  /\ ds_heap_brk = NULL
  /\ InitCall

\* mm_init on a segment that is in use: ds_heap_stat reports its bounds
InitUsedCall ==
  /\ Running
  /\ ncalls' = ncalls + 1
  /\ ds_heap_brk # NULL
  /\ \E fp \in {fp_Implicit, fp_Explicit, 3}, g \in {0, 1} :
       \E h \in {Ret(mm_init(Heap(g), fp), NULL)} :
          /\ Commit(h)
          /\ last' = Call("mm_init", NULL, fp, h)
  /\ UNCHANGED live

NextInitUsed ==
  \/ ForeignSbrkCall
  \/ InitCleanCall
  \/ InitUsedCall
  \/ MallocCall
  \/ FreeCall

SpecInitUsed == Init /\ [][NextInitUsed]_vars

\* mm_malloc of a size above the chunk size
MallocBigCall ==
  /\ Running
  /\ ncalls' = ncalls + 1
  /\ mm_initialized = 1
  /\ \E size \in BigSizes, g \in 0 .. ChunksLeft :
       \E h \in {mm_malloc(Heap(g), size)} :
          /\ Commit(h)
          /\ last' = Call("mm_malloc", NULL, size, h)
          /\ live' = IF h.ret # NULL /\ h.fault = "none"
                     THEN live \cup {h.ret} ELSE live

\* a client of mm_malloc and mm_free whose requests include large ones
NextGrowth ==
  \/ InitCall
  \/ MallocCall
  \/ MallocBigCall
  \/ FreeCall

SpecGrowth == Init /\ [][NextGrowth]_vars

\* the client ends its run with a check of the heap
CheckCall ==
  /\ Running
  /\ ncalls' = MaxCalls
  /\ mm_initialized = 1
  /\ \E h \in {mm_check(Heap(0))} :
        /\ Commit(h)
        /\ last' = Call("mm_check", NULL, 0, h)
  /\ UNCHANGED live

NextCheck == Next \/ CheckCall

SpecCheck == Init /\ [][NextCheck]_vars

\* ------------------------------------------- the state machine (mj_memmgr.c)
\* the globals of mj_memmgr.c and the segment as one record; g chunks are
\* granted by the provider during the call
MjHeap(g) ==
  [mem |-> mem, dsstart |-> ds_heap_start, brk |-> ds_heap_brk,
   hstart |-> heap_start, hend |-> heap_end, ap |-> ap,
   next_block |-> next_block, init |-> mm_initialized, fault |-> fault,
   grants |-> g, fill |-> ds_fill, ret |-> NULL, path |-> "none",
   refused |-> FALSE]

MjCommit(h) ==
  /\ UNCHANGED <<ds_fill, freelist_policy, exp_freelist_head>>
  /\ mem' = h.mem
  /\ ds_heap_start' = h.dsstart
  /\ ds_heap_brk' = h.brk
  /\ heap_start' = h.hstart
  /\ heap_end' = h.hend
  /\ ap' = h.ap
  /\ next_block' = h.next_block
  /\ mm_initialized' = h.init
  /\ fault' = h.fault

MjInitCall ==
  /\ Running
  /\ ncalls' = ncalls + 1
  /\ mm_initialized = 0
  /\ \E apv \in {ap_FirstFit, ap_NextFit, ap_BestFit, 4}, g \in {0, 1} :
       \E h \in {Ret(mj_mm_init([MjHeap(g) EXCEPT !.dsstart = DS_BASE, !.brk = DS_BASE],
                                apv), NULL)} :
          /\ MjCommit(h)
          /\ last' = Call("mm_init", NULL, apv, h)
  /\ UNCHANGED live

MjMallocCall ==
  /\ Running
  /\ ncalls' = ncalls + 1
  /\ mm_initialized = 1
  /\ \E size \in ReqSizes, g \in 0 .. ChunksLeft :
       \E h \in {mj_mm_malloc(MjHeap(g), size)} :
          /\ MjCommit(h)
          /\ last' = Call("mm_malloc", NULL, size, h)
          /\ live' = IF h.ret # NULL /\ h.fault = "none" THEN live \cup {h.ret} ELSE live

MjCallocCall ==
  /\ Running
  /\ ncalls' = ncalls + 1
  /\ mm_initialized = 1
  /\ \E args \in CallocArgs, g \in 0 .. ChunksLeft :
       \E h \in {mj_mm_calloc(MjHeap(g), args[1], args[2])} :
          /\ MjCommit(h)
          /\ last' = Call("mm_calloc", NULL, (args[1] * args[2]) % SizeMod, h)
          /\ live' = IF h.ret # NULL /\ h.fault = "none" THEN live \cup {h.ret} ELSE live

MjReallocCall ==
  /\ Running
  /\ ncalls' = ncalls + 1
  /\ mm_initialized = 1
  /\ \E ptr \in live \cup {NULL}, size \in ReqSizes \cup {0},
        g \in 0 .. ChunksLeft :
       \E h \in {mj_mm_realloc(MjHeap(g), ptr, size)} :
          /\ MjCommit(h)
          /\ last' = Call("mm_realloc", ptr, size, h)
          /\ live' = IF h.fault # "none" THEN live
                     ELSE IF h.ret # NULL THEN (live \ {ptr}) \cup {h.ret}
                     ELSE IF size = 0 THEN live \ {ptr}
                     ELSE live

MjFreeCall ==
  /\ Running
  /\ ncalls' = ncalls + 1
  /\ mm_initialized = 1
  /\ \E ptr \in live \cup {NULL} :
       \E h \in {Ret(mj_mm_free(MjHeap(0), ptr), NULL)} :
          /\ MjCommit(h)
          /\ last' = Call("mm_free", ptr, 0, h)
          /\ live' = IF h.fault # "none" THEN live ELSE live \ {ptr}

NextMj ==
  \/ MjInitCall
  \/ MjMallocCall
  \/ MjCallocCall
  \/ MjReallocCall
  \/ MjFreeCall
  \/ WriteCall

SpecMj == Init /\ [][NextMj]_vars

\* ------------------------------------------------------- reading the heap
\* a public call has returned and the process runs
Settled == mm_initialized = 1 /\ fault = "none"

Word(a) == IF a \in DOMAIN mem THEN mem[a] ELSE 0

\* the headers met by walking from a towards heap_end, adding each size
RECURSIVE WalkFrom(_)
WalkFrom(a) ==
  IF a >= heap_end \/ a \notin DOMAIN mem THEN {}
  ELSE IF SIZE(mem[a]) = 0 THEN {a}
  ELSE {a} \cup WalkFrom(a + SIZE(mem[a]))

Blocks == WalkFrom(heap_start)
FreeBlocks == {b \in Blocks : STATUS(mem[b]) = FREE}

\* the walk from a meets only sizes that are positive multiples of BS and
\* arrives exactly at heap_end
RECURSIVE TilesFrom(_)
TilesFrom(a) ==
  IF a = heap_end THEN TRUE
  ELSE IF a > heap_end \/ a \notin DOMAIN mem THEN FALSE
  ELSE /\ SIZE(mem[a]) > 0
       /\ SIZE(mem[a]) % BS = 0
       /\ TilesFrom(a + SIZE(mem[a]))

\* the blocks reached from bp through the next pointers, in at most fuel steps
RECURSIVE ListFrom(_, _)
ListFrom(bp, fuel) ==
  IF bp = NULL \/ fuel = 0 \/ bp \notin DOMAIN mem THEN {}
  ELSE {bp} \cup ListFrom(Word(NEXT_PTR(bp)), fuel - 1)

Listed == ListFrom(exp_freelist_head, Cardinality(DOMAIN mem))

\* a call of mm_realloc has just taken the relocate path and returned a block
Relocated ==
  /\ last.op = "mm_realloc"
  /\ last.path = "relocate"
  /\ last.ret # NULL
  /\ fault = "none"

\* ------------------------------------------------------------------ C1
\* C1: after mm_init and after every public call on valid arguments, every
\* block met on the walk from heap_start to heap_end has a footer word equal
\* to its header word.
C1_FooterEqualsHeader ==
  Settled =>
    \A b \in Blocks :
      SIZE(mem[b]) > 0 => Word(b + SIZE(mem[b]) - TYPE_SIZE) = mem[b]

\* an allocated block of the walk ends in a footer tagged free
C1_AllocatedBlockFreeFooter ==
  /\ Settled
  /\ \E b \in Blocks :
       /\ SIZE(mem[b]) > 0
       /\ STATUS(mem[b]) = ALLOC
       /\ STATUS(Word(b + SIZE(mem[b]) - TYPE_SIZE)) = FREE

\* ------------------------------------------------------------------ C2
\* C2: after every public call on valid arguments the blocks tile the usable
\* region: the walk from heap_start meets only sizes that are positive
\* multiples of 32 and arrives exactly at heap_end.
C2_BlocksTileHeap == Settled => TilesFrom(heap_start)

\* after a relocating mm_realloc the header at heap_start holds a list pointer
C2_FirstHeaderIsListPointer ==
  /\ Relocated
  /\ freelist_policy = fp_Explicit
  /\ exp_freelist_head = PREV_PTR(heap_start)
  /\ SIZE(mem[heap_start]) > heap_end - heap_start

\* ------------------------------------------------------------------ C3
\* C3: after every public call on valid arguments no two blocks adjacent in
\* address order are both free.
C3_NoAdjacentFree ==
  Settled =>
    \A b \in FreeBlocks :
      (SIZE(mem[b]) > 0 /\ (b + SIZE(mem[b])) \in Blocks)
      => STATUS(mem[b + SIZE(mem[b])]) # FREE

\* two free blocks of positive size follow each other in the walk
C3_TwoFreeInARow ==
  /\ Settled
  /\ \E b \in FreeBlocks :
       /\ SIZE(mem[b]) > 0
       /\ (b + SIZE(mem[b])) \in FreeBlocks
       /\ SIZE(mem[b + SIZE(mem[b])]) > 0

\* ------------------------------------------------------------------ C4
\* C4: under the Explicit policy, after every public call on valid arguments
\* the blocks reachable from exp_freelist_head through the next pointers are
\* exactly the free blocks of the heap.
C4_ListIsFreeSet ==
  (Settled /\ freelist_policy = fp_Explicit) => Listed = FreeBlocks

\* mm_malloc grew the heap behind an allocated block and returned NULL: the
\* new free block is in the heap and the list is empty
C4_GrownBlockNotListed ==
  /\ Settled
  /\ freelist_policy = fp_Explicit
  /\ last.op = "mm_malloc"
  /\ last.ret = NULL
  /\ exp_freelist_head = NULL
  /\ \E b \in FreeBlocks : SIZE(mem[b]) >= AdjustedSize(last.size)

\* ------------------------------------------------------------------ C5
\* C5: under the Explicit policy, after every public call on valid arguments
\* the list is consistently doubly linked: the head's prev pointer is null,
\* and the prev pointer of the successor of a listed block is that block.
C5_ListDoublyLinked ==
  (Settled /\ freelist_policy = fp_Explicit) =>
    /\ exp_freelist_head # NULL => Word(NEXT_NEXT_PTR(exp_freelist_head)) = NULL
    /\ \A b \in Listed :
         Word(NEXT_PTR(b)) # NULL => Word(NEXT_NEXT_PTR(Word(NEXT_PTR(b)))) = b

\* a listed block is its own successor
C5_ListCyclesOnItself ==
  /\ Settled
  /\ freelist_policy = fp_Explicit
  /\ \E b \in Listed : Word(NEXT_PTR(b)) = b

\* ------------------------------------------------------------------ C6
\* C6: in every state reached by public calls on valid arguments the word
\* before heap_start and the word at heap_end hold size 0, status allocated.
C6_SentinelsIntact ==
  Settled => /\ Word(PREV_PTR(heap_start)) = PACK(0, ALLOC)
             /\ Word(heap_end) = PACK(0, ALLOC)

\* a relocating mm_realloc of the first block has returned and the word before
\* heap_start is tagged free
C6_InitialSentinelFreed ==
  /\ Relocated
  /\ PREV_PTR(last.ptr) = heap_start
  /\ Word(PREV_PTR(heap_start)) = PACK(0, FREE)

\* ------------------------------------------------------------------ C7
\* C7: a relocating mm_realloc(p, n) whose inner allocation succeeds returns
\* q # p, and the first s - 16 bytes at q are the s - 16 payload bytes that
\* started at p before the call (s the size of p's block).
C7_RelocateCopiesPayload ==
  [][Relocated' =>
       /\ last'.ret # last'.ptr
       /\ \A a \in DOMAIN mem :
            (a >= last'.ptr /\ a < last'.ptr + SIZE(mem[PREV_PTR(last'.ptr)])
                                               - 2 * TYPE_SIZE)
            => (a - last'.ptr + last'.ret) \in DOMAIN mem'
               /\ mem'[a - last'.ptr + last'.ret] = mem[a]]_vars

\* a relocating mm_realloc has returned a payload whose first word is the
\* header of a block of at least the old size, allocated
C7_NewPayloadStartsWithHeader ==
  /\ Relocated
  /\ last.ret # last.ptr
  /\ mem[last.ret] = mem[PREV_PTR(last.ptr)]
  /\ STATUS(mem[last.ret]) = ALLOC
  /\ SIZE(mem[last.ret]) >= BS

\* ------------------------------------------------------------------ C8
\* C8: after a successful relocating mm_realloc(p, n) the block that backed p
\* is back in the free pool: its header lies in a free block of the heap
\* (listed under Explicit), and the footer of the block before it is the one
\* it had.
C8_RelocateFreesOldBlock ==
  [][Relocated' =>
       /\ \E b \in FreeBlocks' :
            /\ b <= PREV_PTR(last'.ptr)
            /\ PREV_PTR(last'.ptr) < b + SIZE(mem'[b])
            /\ freelist_policy = fp_Explicit => b \in Listed'
       /\ STATUS(mem[PREV_PTR(PREV_PTR(last'.ptr))]) = ALLOC
          => mem'[PREV_PTR(PREV_PTR(last'.ptr))] = mem[PREV_PTR(PREV_PTR(last'.ptr))]]_vars

\* a relocating mm_realloc has returned and the block that backed p is still
\* tagged allocated, in header and footer
C8_OldBlockStillAllocated ==
  /\ Relocated
  /\ PREV_PTR(last.ptr) \in Blocks
  /\ STATUS(mem[PREV_PTR(last.ptr)]) = ALLOC
  /\ Word(PREV_PTR(last.ptr) + SIZE(mem[PREV_PTR(last.ptr)]) - TYPE_SIZE)
       = mem[PREV_PTR(last.ptr)]

\* ------------------------------------------------------------------ C9
\* C9: mm_free(p) directly after mm_free(p) ends in the double-free panic
\* with every heap word and the free list as they were.
C9_DoubleFreePanics ==
  [][last'.op = "mm_free again" =>
       /\ fault' = "PANIC: Double free detected"
       /\ mem' = mem
       /\ exp_freelist_head' = exp_freelist_head]_vars

\* the second mm_free(p) has returned without a panic
C9_SecondFreeReturns ==
  /\ last.op = "mm_free again"
  /\ fault = "none"

\* ------------------------------------------------------------------ C10
\* C10: a non-null result of mm_malloc(n), n > 0, is 8-byte aligned, is the
\* address after a block header, and that block is allocated with a usable
\* payload (size - 16) of at least n bytes.
C10_MallocResultFits ==
  (Settled /\ last.op = "mm_malloc" /\ last.ret # NULL) =>
    /\ last.ret % TYPE_SIZE = 0
    /\ PREV_PTR(last.ret) \in Blocks
    /\ STATUS(mem[PREV_PTR(last.ret)]) = ALLOC
    /\ SIZE(mem[PREV_PTR(last.ret)]) - 2 * TYPE_SIZE >= last.size

\* mm_malloc(SIZE_MAX) has returned a block of the minimum size
C10_HugeRequestSmallBlock ==
  /\ Settled
  /\ last.op = "mm_malloc"
  /\ last.size = SIZE_MAX
  /\ last.ret # NULL
  /\ SIZE(mem[PREV_PTR(last.ret)]) = BS

\* ------------------------------------------------------- well-formed heap
\* the heap a public call is entitled to find: the process runs and the
\* block structure and the free list are coherent
WellFormed ==
  /\ Settled
  /\ C1_FooterEqualsHeader
  /\ C2_BlocksTileHeap
  /\ C3_NoAdjacentFree
  /\ C4_ListIsFreeSet
  /\ C5_ListDoublyLinked
  /\ C6_SentinelsIntact

\* ------------------------------------------------------------------ C11
\* the n bytes at p lie in the segment and are all zero (little-endian words)
ZeroBytes(p, n) ==
  \A a \in {x \in p .. (p + n - 1) : x % TYPE_SIZE = 0} :
    /\ a \in DOMAIN mem
    /\ IF a + TYPE_SIZE <= p + n THEN mem[a] = 0
       ELSE mem[a] % (256 ^ (p + n - a)) = 0

\* C11: a non-null result p of mm_calloc(m, n) is the payload of an allocated
\* block with at least m * n usable bytes, m * n the mathematical product, and
\* the first m * n bytes at p are zero.
C11_CallocZeroedProduct ==
  (Settled /\ last.op = "mm_calloc" /\ last.ret # NULL) =>
    /\ PREV_PTR(last.ret) \in Blocks
    /\ STATUS(mem[PREV_PTR(last.ret)]) = ALLOC
    /\ SIZE(mem[PREV_PTR(last.ret)]) - 2 * TYPE_SIZE >= last.ptr * last.size
    /\ ZeroBytes(last.ret, last.ptr * last.size)

\* mm_calloc(m, 2) with 2 * m = 2 modulo the range of size_t has returned a
\* block of the minimum size
C11_WrappedProductSmallBlock ==
  /\ Settled
  /\ last.op = "mm_calloc"
  /\ last.ret # NULL
  /\ last.ptr * last.size > SIZE_MAX
  /\ SIZE(mem[PREV_PTR(last.ret)]) = BS

\* ------------------------------------------------------------------ C12
\* C12: mm_realloc(p, n) with p live and 0 < n <= payload size of p returns p
\* and leaves the words holding the first n payload bytes as they were.
C12_ShrinkKeepsPayload ==
  [][(/\ last'.op = "mm_realloc"
      /\ last'.ptr # NULL
      /\ last'.size > 0
      /\ last'.size <= SIZE(mem[PREV_PTR(last'.ptr)]) - 2 * TYPE_SIZE)
     => /\ fault' = "none"
        /\ last'.ret = last'.ptr
        /\ \A a \in DOMAIN mem :
             (a >= last'.ptr /\ a < last'.ptr + last'.size) => mem'[a] = mem[a]]_vars

\* an in-place shrink has ended in an access outside the data segment
C12_ShrinkFaults ==
  /\ last.op = "mm_realloc"
  /\ last.path = "shrink"
  /\ last.ret = last.ptr
  /\ fault = "wild access"

\* C12 for calls made on a well-formed heap
C12_OnWellFormedHeap ==
  [][(/\ WellFormed
      /\ last'.op = "mm_realloc"
      /\ last'.ptr # NULL
      /\ last'.size > 0
      /\ last'.size <= SIZE(mem[PREV_PTR(last'.ptr)]) - 2 * TYPE_SIZE)
     => /\ fault' = "none"
        /\ last'.ret = last'.ptr
        /\ \A a \in DOMAIN mem :
             (a >= last'.ptr /\ a < last'.ptr + last'.size) => mem'[a] = mem[a]]_vars

\* ------------------------------------------------------------------ C13
\* C13: when the segment provider refuses a growth request during mm_malloc,
\* mm_calloc or mm_realloc on a well-formed heap, the call returns null and
\* leaves a well-formed heap: header = footer, exact tiling, no adjacent free
\* blocks, sentinels intact and, under Explicit, free list = free blocks.
C13_RefusalLeavesValidHeap ==
  [][(/\ WellFormed
      /\ last'.op \in {"mm_malloc", "mm_calloc", "mm_realloc"}
      /\ last'.refused)
     => /\ last'.ret = NULL
        /\ WellFormed']_vars

\* the provider granted one chunk and refused the next during one mm_malloc on
\* a well-formed heap; the call returned null with a free block that fits the
\* request in the heap
C13_NullWithFittingBlock ==
  /\ Settled
  /\ freelist_policy = fp_Explicit
  /\ last.op = "mm_malloc"
  /\ last.refused
  /\ last.ret = NULL
  /\ C1_FooterEqualsHeader /\ C2_BlocksTileHeap /\ C3_NoAdjacentFree
  /\ C6_SentinelsIntact
  /\ \E b \in FreeBlocks : b \notin Listed /\ SIZE(mem[b]) >= AdjustedSize(last.size)

\* ------------------------------------------------------------------ C14
\* the words of the block whose payload starts at p: header, payload, footer
BlockWords(p) ==
  {a \in DOMAIN mem : a >= PREV_PTR(p) /\ a < PREV_PTR(p) + SIZE(mem[PREV_PTR(p)])}

FitsSomewhere(size) ==
  \E b \in FreeBlocks : SIZE(mem[b]) >= AdjustedSize(size)

\* C15: mm_malloc asks the segment provider for growth only when no free
\* block of the heap fits: a request that fits in an existing free block
\* succeeds and the provider is neither asked nor the segment extended.
C15_GrowthOnlyWithoutFit ==
  [][(/\ Settled
      /\ last'.op = "mm_malloc"
      /\ last'.size > 0
      /\ FitsSomewhere(last'.size))
     => /\ ds_heap_brk' = ds_heap_brk
        /\ heap_end' = heap_end
        /\ ~last'.refused
        /\ last'.ret # NULL]_vars

\* a free block that fits is in the heap and mm_malloc has asked the provider
C15_AskedDespiteFit ==
  /\ Settled
  /\ freelist_policy = fp_Explicit
  /\ last.op = "mm_malloc"
  /\ last.size = 16
  /\ last.refused
  /\ last.ret = NULL
  /\ \E b \in FreeBlocks : SIZE(mem[b]) >= CHUNKSIZE /\ b \notin Listed

\* C15 for calls made on a well-formed heap
C15_OnWellFormedHeap ==
  [][(/\ WellFormed
      /\ last'.op = "mm_malloc"
      /\ last'.size > 0
      /\ FitsSomewhere(last'.size))
     => /\ ds_heap_brk' = ds_heap_brk
        /\ heap_end' = heap_end
        /\ ~last'.refused
        /\ last'.ret # NULL]_vars

\* ------------------------------------------------------------------ C16
\* the number of steps of the explicit scan before it meets b (the number of
\* words of the segment if it never does)
RECURSIVE ListPosFrom(_, _, _)
ListPosFrom(bp, b, fuel) ==
  IF bp = b THEN 0
  ELSE IF bp = NULL \/ fuel = 0 \/ bp \notin DOMAIN mem THEN fuel
  ELSE 1 + ListPosFrom(Word(NEXT_PTR(bp)), b, fuel - 1)

\* the place of block b in scan order: its address under Implicit, its place
\* in the list under Explicit
ScanPos(b) ==
  IF freelist_policy = fp_Implicit THEN b
  ELSE ListPosFrom(exp_freelist_head, b, Cardinality(DOMAIN mem))

\* c is the best fit for a block size asize: a free block of at least asize
\* bytes, of the least size among those, and the first such in scan order
BestFit(c, asize) ==
  /\ c \in FreeBlocks
  /\ SIZE(mem[c]) >= asize
  /\ \A b \in FreeBlocks :
       SIZE(mem[b]) >= asize
       => /\ SIZE(mem[c]) <= SIZE(mem[b])
          /\ SIZE(mem[b]) = SIZE(mem[c]) => ScanPos(c) <= ScanPos(b)

\* C16: the block the search hands to mm_malloc, when it finds one without
\* growing the heap, is the best fit: a free block of the least size >= asize
\* over all free blocks of the heap, the first such in scan order.
C16_SearchIsBestFit ==
  [][(/\ Settled
      /\ last'.op = "mm_malloc"
      /\ last'.ret # NULL
      /\ fault' = "none"
      /\ ds_heap_brk' = ds_heap_brk)
     => BestFit(PREV_PTR(last'.ret), AdjustedSize(last'.size))]_vars

\* mm_malloc has returned a block whose header the walk from heap_start
\* does not meet
C16_ChosenBlockOffTheWalk ==
  /\ Settled
  /\ freelist_policy = fp_Explicit
  /\ last.op = "mm_malloc"
  /\ last.ret # NULL
  /\ ~last.refused
  /\ PREV_PTR(last.ret) \notin Blocks

\* C16 for calls made on a well-formed heap
C16_OnWellFormedHeap ==
  [][(/\ WellFormed
      /\ last'.op = "mm_malloc"
      /\ last'.ret # NULL
      /\ fault' = "none"
      /\ ds_heap_brk' = ds_heap_brk)
     => BestFit(PREV_PTR(last'.ret), AdjustedSize(last'.size))]_vars

\* on a well-formed heap under Implicit, mm_malloc(16) has taken a block
\* that lies behind a free block of 64 bytes or more
C16_SmallerBlockBehindLarger ==
  /\ WellFormed
  /\ freelist_policy = fp_Implicit
  /\ last.op = "mm_malloc"
  /\ last.size = 16
  /\ last.ret # NULL
  /\ \E b \in FreeBlocks : b < PREV_PTR(last.ret) /\ SIZE(mem[b]) >= 2 * BS

\* ------------------------------------------------------------------ C17
\* the blocks of the walk with their tags: address and header word
BlockSeq == {<<b, mem[b]>> : b \in Blocks}

\* C17: p = mm_malloc(n), n > 0, followed at once by mm_free(p) leaves the
\* heap bounds, the sequence of blocks (address, size, status) and, under
\* Explicit, the blocks of the free list as they were.
C17_MallocFreeRestores ==
  [][(last'.op = "mm_malloc; mm_free" /\ last'.size > 0)
     => /\ fault' = "none"
        /\ heap_start' = heap_start
        /\ heap_end' = heap_end
        /\ BlockSeq' = BlockSeq
        /\ freelist_policy = fp_Explicit => Listed' = Listed]_vars

\* on a well-formed heap, mm_malloc(17); mm_free has grown the heap by a
\* chunk and left it grown (no call before it can have grown the heap)
C17_HeapStaysGrown ==
  /\ WellFormed
  /\ ncalls = 3
  /\ last.op = "mm_malloc; mm_free"
  /\ last.ptr # NULL
  /\ heap_end = DS_BASE + 2 * CHUNKSIZE - BS
  /\ live # {}

\* C17 for calls made on a well-formed heap that serve the request without
\* growing the heap
C17_WithoutGrowth ==
  [][(/\ WellFormed
      /\ last'.op = "mm_malloc; mm_free"
      /\ last'.size > 0
      /\ FitsSomewhere(last'.size))
     => /\ fault' = "none"
        /\ last'.ptr # NULL
        /\ heap_start' = heap_start
        /\ heap_end' = heap_end
        /\ BlockSeq' = BlockSeq
        /\ freelist_policy = fp_Explicit => Listed' = Listed]_vars

\* ------------------------------------------------------------------ C18
\* C18: in a run of successful mm_malloc calls followed by mm_free of the
\* returned pointers, each once, in any order, the heap is well-formed after
\* every step, and once every pointer is freed it is one free block of
\* heap_end - heap_start bytes (the only block of the list under Explicit).
C18_AllFreedOneBlock ==
  Settled =>
    /\ WellFormed
    /\ live = {} =>
         /\ Blocks = {heap_start}
         /\ mem[heap_start] = PACK(heap_end - heap_start, FREE)
         /\ freelist_policy = fp_Explicit => Listed = {heap_start}

\* two blocks were allocated, the heap grew, and both blocks are freed
C18_TwoFreedAfterGrowth ==
  /\ Settled
  /\ last.op = "mm_free"
  /\ live = {}
  /\ ncalls >= 5
  /\ heap_end = DS_BASE + 2 * CHUNKSIZE - BS


\* ------------------------------------------------------------------ C19
\* how many times block b is met on the free list, in at most fuel steps
RECURSIVE ListCountFrom(_, _, _)
ListCountFrom(bp, b, fuel) ==
  IF bp = NULL \/ fuel = 0 \/ bp \notin DOMAIN mem THEN 0
  ELSE (IF bp = b THEN 1 ELSE 0) + ListCountFrom(Word(NEXT_PTR(bp)), b, fuel - 1)

ListCount(b) == ListCountFrom(exp_freelist_head, b, Cardinality(DOMAIN mem))

\* mm_realloc(p, n) is called with n > 0 and an adjusted size, computed
\* without wrapping, of at most the size s of the block at c = p - 8
ShrinkRequest(c, s, asize) ==
  /\ last'.op = "mm_realloc"
  /\ last'.ptr # NULL
  /\ last'.size > 0
  /\ last'.size + 2 * TYPE_SIZE + BS <= SIZE_MAX
  /\ c = PREV_PTR(last'.ptr)
  /\ s = SIZE(Word(c))
  /\ asize = AdjustedSize(last'.size)
  /\ asize <= s

\* the heap after a shrink of the block at c from s to asize bytes, where f is
\* the size of the block that followed it if that block was free, and 0 if not
ShrunkInPlace(c, s, asize, f) ==
  /\ fault' = "none"
  /\ last'.ret = last'.ptr
  /\ IF s - asize >= BS
     THEN /\ Word(c)' = PACK(asize, ALLOC)
          /\ Word(c + asize - TYPE_SIZE)' = PACK(asize, ALLOC)
          /\ Word(c + asize)' = PACK(s - asize + f, FREE)
          /\ Word(c + s + f - TYPE_SIZE)' = PACK(s - asize + f, FREE)
          /\ STATUS(Word(c + s + f))' = ALLOC
          /\ freelist_policy = fp_Explicit
             => /\ ListCount(c + asize)' = 1
                /\ f > 0 => ListCount(c + s)' = 0
     ELSE /\ Word(c)' = PACK(s, ALLOC)
          /\ Word(c + s - TYPE_SIZE)' = PACK(s, ALLOC)

\* C19: when mm_realloc(p, n) shrinks in place (adjusted size asize at most the
\* block size s), the call returns p; if s - asize >= 32 the block at p becomes
\* an allocated block of asize bytes and the remainder a free block, merged
\* with the following block if that was free, followed by an allocated block
\* and, under Explicit, met exactly once on the free list; otherwise the block
\* stays an allocated block of s bytes.
C19_ShrinkInPlace ==
  [][\A c \in {PREV_PTR(last'.ptr)} :
       \A s \in {SIZE(Word(c))} :
         \A asize \in {AdjustedSize(last'.size)} :
           \A f \in {IF STATUS(Word(c + s)) = FREE THEN SIZE(Word(c + s)) ELSE 0} :
             (Settled /\ ShrinkRequest(c, s, asize)) => ShrunkInPlace(c, s, asize, f)]_vars

\* C19 for calls made on a well-formed heap
C19_OnWellFormedHeap ==
  [][\A c \in {PREV_PTR(last'.ptr)} :
       \A s \in {SIZE(Word(c))} :
         \A asize \in {AdjustedSize(last'.size)} :
           \A f \in {IF STATUS(Word(c + s)) = FREE THEN SIZE(Word(c + s)) ELSE 0} :
             (WellFormed /\ ShrinkRequest(c, s, asize)) => ShrunkInPlace(c, s, asize, f)]_vars

\* an in-place shrink under Explicit has stopped with its remainder unmerged
\* beside a free block
C19_RemainderBesideFreeBlock ==
  /\ last.op = "mm_realloc"
  /\ last.path = "shrink"
  /\ freelist_policy = fp_Explicit
  /\ fault = "wild access"
  /\ \E r \in {PREV_PTR(last.ptr) + SIZE(Word(PREV_PTR(last.ptr)))} :
       /\ STATUS(Word(r)) = FREE
       /\ SIZE(Word(r)) >= BS
       /\ STATUS(Word(r + SIZE(Word(r)))) = FREE
       /\ SIZE(Word(r + SIZE(Word(r)))) >= BS

\* ------------------------------------------------------------------ C20
\* mm_realloc(p, n) is called with an adjusted size, computed without
\* wrapping, above the size s of the block at c = p - 8, while the block after
\* it is free and the two together hold total >= asize bytes
GrowRequest(c, s, asize, total) ==
  /\ last'.op = "mm_realloc"
  /\ last'.ptr # NULL
  /\ last'.size > 0
  /\ last'.size + 2 * TYPE_SIZE + BS <= SIZE_MAX
  /\ c = PREV_PTR(last'.ptr)
  /\ s = SIZE(Word(c))
  /\ asize = AdjustedSize(last'.size)
  /\ asize > s
  /\ STATUS(Word(c + s)) = FREE
  /\ total = s + SIZE(Word(c + s))
  /\ total >= asize

\* the heap after the block at c has grown from s to asize bytes into the
\* free block after it
GrownIntoNext(c, s, asize, total) ==
  /\ fault' = "none"
  /\ last'.ret = last'.ptr
  /\ IF total - asize >= BS
     THEN /\ Word(c)' = PACK(asize, ALLOC)
          /\ Word(c + asize - TYPE_SIZE)' = PACK(asize, ALLOC)
          /\ Word(c + asize)' = PACK(total - asize, FREE)
          /\ Word(c + total - TYPE_SIZE)' = PACK(total - asize, FREE)
          /\ freelist_policy = fp_Explicit => ListCount(c + asize)' = 1
     ELSE /\ Word(c)' = PACK(total, ALLOC)
          /\ Word(c + total - TYPE_SIZE)' = PACK(total, ALLOC)
  /\ freelist_policy = fp_Explicit => ListCount(c + s)' = 0

\* C20: when mm_realloc(p, n) needs asize > s, the next block is free and
\* s + size(next) >= asize, the call returns p; the block at p becomes an
\* allocated block of asize bytes followed by a free block of the difference,
\* on the free list under Explicit, if s + size(next) - asize >= 32, and an
\* allocated block of s + size(next) bytes otherwise; the absorbed block is no
\* longer on the free list.
C20_GrowIntoNextFree ==
  [][\A c \in {PREV_PTR(last'.ptr)} :
       \A s \in {SIZE(Word(c))} :
         \A asize \in {AdjustedSize(last'.size)} :
           \A total \in {s + SIZE(Word(c + s))} :
             (Settled /\ GrowRequest(c, s, asize, total))
             => GrownIntoNext(c, s, asize, total)]_vars

\* C20 for calls made on a well-formed heap
C20_OnWellFormedHeap ==
  [][\A c \in {PREV_PTR(last'.ptr)} :
       \A s \in {SIZE(Word(c))} :
         \A asize \in {AdjustedSize(last'.size)} :
           \A total \in {s + SIZE(Word(c + s))} :
             (WellFormed /\ GrowRequest(c, s, asize, total))
             => GrownIntoNext(c, s, asize, total)]_vars

\* a grow into the next block under Explicit has stopped in free_from_free_list
\* with the next block still free and off the list
C20_NextBlockNeverListed ==
  /\ last.op = "mm_realloc"
  /\ last.path = "grow"
  /\ freelist_policy = fp_Explicit
  /\ fault = "wild access"
  /\ \E nx \in {PREV_PTR(last.ptr) + SIZE(Word(PREV_PTR(last.ptr)))} :
       /\ STATUS(Word(nx)) = FREE
       /\ SIZE(Word(nx)) >= BS
       /\ ListCount(nx) = 0

\* ------------------------------------------------------------------ C21
\* the chunks the provider granted during the step
Granted == (ds_heap_brk' - ds_heap_brk) \div CHUNKSIZE

\* the step leaves the allocator as the record h describes it
Yields(h) ==
  /\ mem' = h.mem
  /\ ds_heap_start' = h.dsstart
  /\ ds_heap_brk' = h.brk
  /\ heap_start' = h.hstart
  /\ heap_end' = h.hend
  /\ freelist_policy' = h.policy
  /\ exp_freelist_head' = h.head
  /\ mm_initialized' = h.init
  /\ fault' = h.fault
  /\ last'.ret = h.ret
  /\ last'.refused = h.refused

\* C21: mm_realloc(NULL, n) returns what mm_malloc(n) returns and leaves the
\* heap in the state mm_malloc(n) leaves it in, for every n; mm_realloc(NULL, 0)
\* returns null and changes no heap word, no heap bound and not the free-list
\* head.
C21_ReallocNullIsMalloc ==
  [][(last'.op = "mm_realloc" /\ last'.ptr = NULL)
     => /\ \E g \in {Granted} : Yields(mm_malloc(Heap(g), last'.size))
        /\ last'.size = 0
           => /\ last'.ret = NULL
              /\ UNCHANGED <<mem, ds_heap_start, ds_heap_brk, heap_start, heap_end,
                             exp_freelist_head, fault>>]_vars

\* mm_realloc(NULL, n) has returned a block of a heap that it grew
C21_ReallocNullGrewHeap ==
  /\ last.op = "mm_realloc"
  /\ last.ptr = NULL
  /\ last.path = "malloc"
  /\ last.ret \in live
  /\ fault = "none"
  /\ heap_end >= DS_BASE + 2 * CHUNKSIZE - BS
  /\ Word(PREV_PTR(last.ret)) = PACK(2 * BS, ALLOC)

C23_StateAfterInit ==
  (last.op = "mm_init" /\ Settled)
  => /\ ds_heap_start = DS_BASE
     /\ ds_heap_brk = ds_heap_start + CHUNKSIZE
     /\ heap_start = ds_heap_start + BS
     /\ heap_end = ds_heap_brk - BS
     /\ Word(PREV_PTR(heap_start)) = PACK(0, ALLOC)
     /\ Word(heap_end) = PACK(0, ALLOC)
     /\ Blocks = {heap_start}
     /\ Word(heap_start) = PACK(CHUNKSIZE - 2 * BS, FREE)
     /\ Word(PREV_PTR(heap_end)) = PACK(CHUNKSIZE - 2 * BS, FREE)
     /\ freelist_policy = fp_Explicit
        => /\ exp_freelist_head = heap_start
           /\ Word(NEXT_PTR(heap_start)) = NULL
           /\ Word(NEXT_NEXT_PTR(heap_start)) = NULL

\* mm_init(fp_Explicit) has returned on a segment whose fresh memory is not
\* zero
C23_ExplicitInitOnDirtyMemory ==
  /\ last.op = "mm_init"
  /\ last.size = fp_Explicit
  /\ Settled
  /\ ds_fill # 0
  /\ Word(ds_heap_start) = ds_fill

\* ------------------------------------------------------------------ C24
\* C24: mm_init ends the process, without requesting a chunk from the provider
\* and without setting the initialized flag, when the policy is neither
\* Implicit nor Explicit or when the segment is not empty at entry; a second
\* mm_init after a successful one therefore always ends the process.
C24_InitAbortsOnBadEntry ==
  [][(/\ last'.op = "mm_init"
      /\ \/ last'.size \notin {fp_Implicit, fp_Explicit}
         \/ ds_heap_start # ds_heap_brk)
     => /\ fault' \in {"PANIC: Non supported freelist policy.", "PANIC: Heap not clean."}
        /\ DOMAIN mem' = DOMAIN mem
        /\ ~last'.refused
        /\ mm_initialized' = mm_initialized
        /\ mem' = mem]_vars

\* a second mm_init, with a valid policy, has ended the process
C24_SecondInitAborted ==
  /\ last.op = "mm_init"
  /\ last.size \in {fp_Implicit, fp_Explicit}
  /\ mm_initialized = 1
  /\ live # {}
  /\ fault = "PANIC: Heap not clean."

\* mm_init on a segment somebody else has used has ended the process
C24_FirstInitOnUsedSegment ==
  /\ last.op = "mm_init"
  /\ last.size \in {fp_Implicit, fp_Explicit}
  /\ mm_initialized = 0
  /\ ds_heap_brk = DS_BASE + CHUNKSIZE
  /\ fault = "PANIC: Heap not clean."

\* ------------------------------------------------------------------ C25
\* C25: within one call of mm_malloc the heap is extended at most once: after
\* one growth the search is retried once, and a retry that finds no fit makes
\* mm_malloc return null without asking the provider again.
C25_OneGrowthPerCall ==
  [][(last'.op = "mm_malloc" /\ mm_initialized = 1)
     => /\ Granted <= 1
        /\ Granted = 1 => ~last'.refused]_vars

\* one call of mm_malloc on a well-formed heap under Implicit has taken two
\* chunks and returned a block
C25_TwoChunksInOneCall ==
  /\ WellFormed
  /\ freelist_policy = fp_Implicit
  /\ last.op = "mm_malloc"
  /\ last.ret \in live
  /\ ncalls = 2
  /\ heap_end = DS_BASE + 3 * CHUNKSIZE - BS

\* ------------------------------------------------------------------ C26
\* the free list of heap record h from bp on, in list order, in at most fuel
\* steps
RECURSIVE ListOf(_, _, _)
ListOf(h, bp, fuel) ==
  IF bp = NULL \/ fuel = 0 \/ ~Valid(h, bp) THEN << >>
  ELSE <<bp>> \o ListOf(h, NEXT_LIST_GET(h, bp), fuel - 1)

FreeListOf(h) == ListOf(h, h.head, Cardinality(DOMAIN h.mem))

\* a successful mm_sbrk turns the heap h into g with the last block fused:
\* same list, and the last block CHUNKSIZE larger
GrowthFused(h, g) ==
  /\ FreeListOf(g) = FreeListOf(h)
  /\ \E b \in {FTR2HDR(h, PREV_PTR(h.hend))} :
       GET(g, b) = PACK(GET_SIZE(h, b) + CHUNKSIZE, FREE)

\* a successful mm_sbrk turns the heap h into g with a new block of CHUNKSIZE
\* bytes at the head of the list
GrowthSpliced(h, g) ==
  /\ FreeListOf(g) = <<h.hend>> \o FreeListOf(h)
  /\ GET(g, h.hend) = PACK(CHUNKSIZE, FREE)

\* C26: under Explicit a successful heap growth updates the free list: if the
\* block before the old end sentinel was free its entry stays at its place in
\* the list, with the enlarged size; if that block was allocated the new free
\* block of CHUNKSIZE bytes becomes the head of the list.
C26_GrowthUpdatesList ==
  (WellFormed /\ freelist_policy = fp_Explicit /\ ChunksLeft >= 1)
  => \E g \in {mm_sbrk(Heap(1))} :
       /\ g.ret = 1
       /\ IF STATUS(Word(PREV_PTR(heap_end))) = FREE
          THEN GrowthFused(Heap(1), g)
          ELSE GrowthSpliced(Heap(1), g)

\* the half of C26 about a free last block
C26_FusedEntryStays ==
  (WellFormed /\ freelist_policy = fp_Explicit /\ ChunksLeft >= 1
   /\ STATUS(Word(PREV_PTR(heap_end))) = FREE)
  => \E g \in {mm_sbrk(Heap(1))} : g.ret = 1 /\ GrowthFused(Heap(1), g)

\* under Explicit a call has grown a heap whose last block was allocated, and
\* the list is as empty as it was before
C26_NewBlockNotSpliced ==
  /\ Settled
  /\ freelist_policy = fp_Explicit
  /\ last.op \in {"mm_malloc", "mm_calloc", "mm_realloc"}
  /\ last.ret = NULL
  /\ heap_end > DS_BASE + CHUNKSIZE
  /\ exp_freelist_head = NULL
  /\ STATUS(Word(DS_BASE + CHUNKSIZE - BS)) = FREE
  /\ SIZE(Word(DS_BASE + CHUNKSIZE - BS)) >= CHUNKSIZE
  /\ STATUS(Word(DS_BASE + CHUNKSIZE - 2 * BS)) = ALLOC

\* ------------------------------------------------------------------ C27
\* a successful mm_sbrk turns the heap h into g: heap_end moves forward by
\* CHUNKSIZE, the word at the new heap_end is a size-0 allocated sentinel, the
\* last block is the former last block enlarged by CHUNKSIZE if that was free
\* and a new free block of CHUNKSIZE bytes at the old heap_end if not, and the
\* words before the last block are unchanged.  The former last block is the
\* one the tag before the old end sentinel describes, as mm_sbrk reads it.
GrownByOneChunk(h, g) ==
  /\ g.ret = 1
  /\ g.fault = "none"
  /\ g.hstart = h.hstart
  /\ g.hend = h.hend + CHUNKSIZE
  /\ g.brk = h.brk + CHUNKSIZE
  /\ GET(g, g.hend) = PACK(0, ALLOC)
  /\ \E b \in {IF GET_STATUS(h, PREV_PTR(h.hend)) = FREE
               THEN FTR2HDR(h, PREV_PTR(h.hend)) ELSE h.hend} :
       /\ GET(g, b) = PACK(g.hend - b, FREE)
       /\ GET(g, PREV_PTR(g.hend)) = PACK(g.hend - b, FREE)
       /\ g.hend - b = (IF GET_STATUS(h, PREV_PTR(h.hend)) = FREE
                        THEN GET_SIZE(h, PREV_PTR(h.hend)) + CHUNKSIZE
                        ELSE CHUNKSIZE)
       /\ \A a \in DOMAIN h.mem : a < b => g.mem[a] = h.mem[a]

RECURSIVE GrownTimes(_, _)
GrownTimes(h, k) == IF k = 0 THEN h ELSE GrownTimes(mm_sbrk(h), k - 1)

\* the headers met by walking the heap record h from a towards its end
RECURSIVE WalkOf(_, _)
WalkOf(h, a) ==
  IF a >= h.hend \/ ~Valid(h, a) THEN {}
  ELSE IF GET_SIZE(h, a) = 0 THEN {a}
  ELSE {a} \cup WalkOf(h, a + GET_SIZE(h, a))

\* the sequence s with every b replaced by c, and with every b left out
Replaced(s, b, c) == [i \in DOMAIN s |-> IF s[i] = b THEN c ELSE s[i]]
Without(s, b) == SelectSeq(s, LAMBDA x : x # b)

\* mm_malloc has turned the heap h, in which it chose the free block b of sb
\* bytes for a block size asize, into the heap g
Placed(h, g, b, sb, asize) ==
  /\ GET_STATUS(h, b) = FREE
  /\ IF sb - asize >= BS
     THEN /\ GET(g, b) = PACK(asize, ALLOC)
          /\ GET(g, b + asize - TYPE_SIZE) = PACK(asize, ALLOC)
          /\ GET(g, b + asize) = PACK(sb - asize, FREE)
          /\ GET(g, b + sb - TYPE_SIZE) = PACK(sb - asize, FREE)
          /\ h.policy = fp_Explicit
             => FreeListOf(g) = Replaced(FreeListOf(h), b, b + asize)
     ELSE /\ sb = asize
          /\ GET(g, b) = PACK(sb, ALLOC)
          /\ GET(g, b + sb - TYPE_SIZE) = PACK(sb, ALLOC)
          /\ h.policy = fp_Explicit => FreeListOf(g) = Without(FreeListOf(h), b)
  /\ \A c \in WalkOf(h, h.hstart) \ {b} :
       /\ GET(g, c) = GET(h, c)
       /\ GET(g, HDR2FTR(h, c)) = GET(h, HDR2FTR(h, c))

\* mm_malloc(n), with n + 16 rounded up without wrapping, returns a block
MallocReturns ==
  /\ last'.op = "mm_malloc"
  /\ last'.ret # NULL
  /\ fault' = "none"
  /\ last'.size + 2 * TYPE_SIZE + BS <= SIZE_MAX

\* C28: after a successful mm_malloc(n) that chose the free block b, with
\* asize = n + 16 rounded up to 32: if size(b) - asize >= 32 the block at b is
\* allocated with asize bytes and a free block of size(b) - asize bytes starts
\* right after it, in b's place in the free list under Explicit; otherwise
\* size(b) = asize and b is allocated whole and off the list; the tags of
\* every other block are unchanged.
C28_MallocPlacesBlock ==
  [][(Settled /\ MallocReturns)
     => \E h \in {GrownTimes(Heap(Granted), Granted)} :
          \E b \in {PREV_PTR(last'.ret)} :
            Placed(h, Heap(0)', b, GET_SIZE(h, b), AdjustedSize(last'.size))]_vars

\* C28 for calls made on a well-formed heap
C28_OnWellFormedHeap ==
  [][(WellFormed /\ MallocReturns)
     => \E h \in {GrownTimes(Heap(Granted), Granted)} :
          \E b \in {PREV_PTR(last'.ret)} :
            Placed(h, Heap(0)', b, GET_SIZE(h, b), AdjustedSize(last'.size))]_vars

\* under Explicit mm_malloc has returned a block after unlinking it from a
\* list that runs through the word before heap_start: the header at
\* heap_start now holds a null list pointer
C28_UnlinkRewroteFirstHeader ==
  /\ Settled
  /\ freelist_policy = fp_Explicit
  /\ last.op = "mm_malloc"
  /\ last.ret \in live
  /\ exp_freelist_head = PREV_PTR(heap_start)
  /\ Word(heap_start) = NULL
  /\ Word(PREV_PTR(last.ret)) = PACK(BS, ALLOC)

\* ------------------------------------------------------------------ C29
\* mm_free(p) is called on a live pointer whose block at c = p - 8 has s
\* bytes, with ps the size of the block before it if that block is free and
\* ns the size of the block after it if that block is free (0 if allocated)
FreeRequest(c, s, ps, ns) ==
  /\ last'.op = "mm_free"
  /\ last'.ptr \in live
  /\ c = PREV_PTR(last'.ptr)
  /\ s = SIZE(Word(c))
  /\ ps = (IF c > heap_start /\ STATUS(Word(PREV_PTR(c))) = FREE
           THEN SIZE(Word(PREV_PTR(c))) ELSE 0)
  /\ ns = (IF STATUS(Word(c + s)) = FREE THEN SIZE(Word(c + s)) ELSE 0)

\* the heap after the block at c has been freed: one free block covers it and
\* its free neighbours; allocated neighbours and the sentinels are as before
FreedAndMerged(c, s, ps, ns) ==
  /\ fault' = "none"
  /\ Word(c - ps)' = PACK(ps + s + ns, FREE)
  /\ Word(c + s + ns - TYPE_SIZE)' = PACK(ps + s + ns, FREE)
  /\ Word(PREV_PTR(heap_start))' = Word(PREV_PTR(heap_start))
  /\ Word(heap_end)' = Word(heap_end)
  /\ heap_start' = heap_start
  /\ heap_end' = heap_end
  /\ (ps = 0 /\ c > heap_start)
     => /\ Word(PREV_PTR(c))' = Word(PREV_PTR(c))
        /\ Word(c - SIZE(Word(PREV_PTR(c))))' = Word(c - SIZE(Word(PREV_PTR(c))))
  /\ (ns = 0 /\ c + s < heap_end)
     => /\ Word(c + s)' = Word(c + s)
        /\ Word(c + s + SIZE(Word(c + s)) - TYPE_SIZE)'
             = Word(c + s + SIZE(Word(c + s)) - TYPE_SIZE)
  /\ STATUS(Word(c - ps - TYPE_SIZE))' = ALLOC
  /\ STATUS(Word(c + s + ns))' = ALLOC

\* C29: under either policy mm_free(p) on a live pointer produces one free
\* block that covers exactly the block of p and those of its two neighbours in
\* address order that were free before the call, with the sum of the merged
\* sizes in header and footer; allocated neighbours and the sentinels are
\* neither merged nor rewritten.
C29_FreeMergesFreeNeighbours ==
  [][\A c \in {PREV_PTR(last'.ptr)} :
       \A s \in {SIZE(Word(c))} :
         \A ps \in {IF c > heap_start /\ STATUS(Word(PREV_PTR(c))) = FREE
                    THEN SIZE(Word(PREV_PTR(c))) ELSE 0} :
           \A ns \in {IF STATUS(Word(c + s)) = FREE THEN SIZE(Word(c + s)) ELSE 0} :
             (Settled /\ FreeRequest(c, s, ps, ns)) => FreedAndMerged(c, s, ps, ns)]_vars

\* C29 for calls made on a well-formed heap
C29_OnWellFormedHeap ==
  [][\A c \in {PREV_PTR(last'.ptr)} :
       \A s \in {SIZE(Word(c))} :
         \A ps \in {IF c > heap_start /\ STATUS(Word(PREV_PTR(c))) = FREE
                    THEN SIZE(Word(PREV_PTR(c))) ELSE 0} :
           \A ns \in {IF STATUS(Word(c + s)) = FREE THEN SIZE(Word(c + s)) ELSE 0} :
             (WellFormed /\ FreeRequest(c, s, ps, ns)) => FreedAndMerged(c, s, ps, ns)]_vars

\* under Explicit mm_free has stopped while unlinking the free block after
\* the block of p, which was never on the list: the block of p is still
\* allocated
C29_FreeBesideUnlistedBlock ==
  /\ last.op = "mm_free"
  /\ last.ptr \in live
  /\ freelist_policy = fp_Explicit
  /\ fault = "wild access"
  /\ STATUS(Word(PREV_PTR(last.ptr))) = ALLOC
  /\ \E nx \in {PREV_PTR(last.ptr) + SIZE(Word(PREV_PTR(last.ptr)))} :
       /\ STATUS(Word(nx)) = FREE
       /\ SIZE(Word(nx)) >= CHUNKSIZE
       /\ ListCount(nx) = 0

\* ------------------------------------------------------------------ C30
\* mm_malloc(n) with n > 0, and n + 16 rounded up without wrapping, is called
MallocRequest ==
  /\ last'.op = "mm_malloc"
  /\ last'.size > 0
  /\ last'.size + 2 * TYPE_SIZE + BS <= SIZE_MAX

\* the call has returned a block, or it has given up on a refusal of the
\* provider with a last block that is not a free block of asize bytes: the
\* growth it went through made every new byte available to the search
ReturnsUnlessOutOfMemory(asize) ==
  /\ fault' = "none"
  /\ \/ last'.ret # NULL
     \/ /\ last'.refused
        /\ ~(/\ STATUS(Word(PREV_PTR(heap_end)))' = FREE
             /\ SIZE(Word(PREV_PTR(heap_end)))' >= asize)

\* C30: under either policy, as long as the provider grants the growth
\* requests, every call mm_malloc(n) with n > 0 ends and returns a non-null
\* pointer: each growth makes a larger free block available to the next
\* search, so the retry after growth is repeated only until the block fits.
C30_MallocEndsWithBlock ==
  [][\A asize \in {AdjustedSize(last'.size)} :
       (Settled /\ MallocRequest) => ReturnsUnlessOutOfMemory(asize)]_vars

\* C30 for calls made on a well-formed heap under Implicit
C30_UnderImplicit ==
  [][\A asize \in {AdjustedSize(last'.size)} :
       (WellFormed /\ freelist_policy = fp_Implicit /\ MallocRequest)
       => ReturnsUnlessOutOfMemory(asize)]_vars

\* under Explicit one call of mm_malloc on a well-formed heap has taken every
\* chunk the provider had and returned null, with a free block of two chunks
\* at the end of the heap
C30_AllChunksTakenForNothing ==
  /\ Settled
  /\ freelist_policy = fp_Explicit
  /\ last.op = "mm_malloc"
  /\ last.ret = NULL
  /\ last.refused
  /\ ncalls = 3
  /\ ds_heap_brk = DS_LIMIT
  /\ Word(PREV_PTR(heap_end)) = PACK(2 * CHUNKSIZE, FREE)
  /\ exp_freelist_head = NULL

C32_CheckAbortsOnViolation ==
  [][(/\ last'.op = "mm_check"
      /\ Settled
      /\ ~(C1_FooterEqualsHeader /\ TilesFrom(heap_start)))
     => fault' # "none"]_vars

\* the first kind alone: mm_check on a heap with a block whose footer differs
\* from its header ends the process
C32_FooterMismatchAborts ==
  [][(last'.op = "mm_check" /\ Settled /\ ~C1_FooterEqualsHeader)
     => fault' # "none"]_vars

\* mm_check has returned from a heap whose blocks do not tile it
C32_CheckReturnedFromBrokenHeap ==
  /\ last.op = "mm_check"
  /\ Settled
  /\ ~TilesFrom(heap_start)
  /\ last.path = "not coherent"


\* ------------------------------------------------------------------ C33
\* C33: mm_realloc(p, n) with a live pointer p and n > 0 never ends in the
\* panic "Double free detected", whatever the blocks next to p's block are:
\* it returns a pointer or null.
C33_ReallocNeverPanicsDoubleFree ==
  [][(last'.op = "mm_realloc" /\ last'.ptr \in live /\ last'.size > 0)
     => fault' # "PANIC: Double free detected"]_vars

\* the same for calls on a well-formed heap
C33_OnWellFormedHeap ==
  [][(/\ WellFormed
      /\ last'.op = "mm_realloc" /\ last'.ptr \in live /\ last'.size > 0)
     => fault' # "PANIC: Double free detected"]_vars

\* the calls of C33 that do not relocate never end in that panic
C33_InPlaceNeverPanics ==
  [][(/\ last'.op = "mm_realloc" /\ last'.ptr \in live /\ last'.size > 0
      /\ last'.path # "relocate")
     => fault' # "PANIC: Double free detected"]_vars

\* a relocating mm_realloc has ended in the panic of mm_free
C33_RelocatePanicked ==
  /\ last.op = "mm_realloc"
  /\ last.ptr \in live
  /\ last.size > 0
  /\ last.path = "relocate"
  /\ fault = "PANIC: Double free detected"


\* ------------------------------------------------------------------ C34
\* the last byte of the payload of the block whose payload starts at p
PayloadEnd(p) == PREV_PTR(p) + SIZE(Word(PREV_PTR(p))) - TYPE_SIZE - 1

\* the payload at p lies inside one allocated block of the walk
InAllocatedBlock(p) ==
  /\ PREV_PTR(p) \in Blocks
  /\ STATUS(Word(PREV_PTR(p))) = ALLOC
  /\ PayloadEnd(p) >= p
  /\ PayloadEnd(p) + TYPE_SIZE < heap_end

\* C34: after any sequence of public calls on valid arguments the payloads of
\* any two live allocations are disjoint, and every live payload lies inside
\* one block of the heap whose status is allocated.
C34_LivePayloadsDisjoint ==
  Settled =>
    /\ \A p \in live : InAllocatedBlock(p)
    /\ \A p, q \in live :
         p < q => PayloadEnd(p) < q

\* the same while no call has taken the relocate path of mm_realloc
C34_OnWellFormedHeap ==
  (Settled /\ WellFormed) =>
    /\ \A p \in live : InAllocatedBlock(p)
    /\ \A p, q \in live :
         p < q => PayloadEnd(p) < q

\* a live pointer whose block the heap walk no longer meets as allocated
C34_LivePayloadLost ==
  /\ Settled
  /\ \E p \in live : ~InAllocatedBlock(p)


\* ------------------------------------------------------------------ C35
\* the walk from bp along the next pointers reaches null in at most fuel steps
RECURSIVE ChainEnds(_, _)
ChainEnds(bp, fuel) ==
  \/ bp = NULL
  \/ /\ fuel > 0
     /\ bp \in DOMAIN mem
     /\ ChainEnds(Word(NEXT_PTR(bp)), fuel - 1)

\* C35: under the Explicit policy, after every public call on valid arguments
\* the free list is a finite chain ending in null on which no block is met
\* twice: the walk from exp_freelist_head along the next pointers reaches null
\* after at most as many steps as there are free blocks.
C35_ListIsFiniteChain ==
  (Settled /\ freelist_policy = fp_Explicit) =>
    /\ ChainEnds(exp_freelist_head, Cardinality(FreeBlocks))
    /\ \A b \in Listed : ListCount(b) = 1

\* the same on well-formed heaps
C35_OnWellFormedHeap ==
  (Settled /\ WellFormed /\ freelist_policy = fp_Explicit) =>
    /\ ChainEnds(exp_freelist_head, Cardinality(FreeBlocks))
    /\ \A b \in Listed : ListCount(b) = 1

\* the walk along the next pointers never reaches null
C35_ListNeverEnds ==
  /\ Settled
  /\ freelist_policy = fp_Explicit
  /\ ~ChainEnds(exp_freelist_head, Cardinality(DOMAIN mem))


\* ------------------------------------------------------------------ C36
\* mm_realloc(p, n) on a live p has grown the block in place into the free
\* block after it and returned p
GrewInPlace ==
  /\ last'.op = "mm_realloc"
  /\ last'.ptr \in live
  /\ last'.path = "grow"
  /\ last'.ret = last'.ptr
  /\ fault' = "none"

C36_OnWellFormedHeap ==
  [][(WellFormed /\ GrewInPlace)
     => \A a \in DOMAIN mem :
          (a >= last'.ptr
           /\ a < last'.ptr + SIZE(Word(PREV_PTR(last'.ptr))) - 2 * TYPE_SIZE)
          => mem'[a] = mem[a]]_vars

FootersMatch == \A b \in Blocks : Word(b + SIZE(Word(b)) - TYPE_SIZE) = Word(b)

\* no block of the walk and the block after it are both free
NoAdjacentFree ==
  \A b \in Blocks :
    (STATUS(Word(b)) = FREE /\ b + SIZE(Word(b)) < heap_end)
    => STATUS(Word(b + SIZE(Word(b)))) # FREE

\* C37: in mj_memmgr.c, under each of the three allocation policies, after
\* mm_init and after every mm_malloc, mm_calloc, mm_realloc or mm_free on
\* valid arguments, every block has a footer equal to its header, the block
\* sizes are multiples of 32 that tile heap_start..heap_end exactly, and no
\* two adjacent blocks are both free.
C37_MjHeapCoherent ==
  Settled => /\ FootersMatch
             /\ TilesFrom(heap_start)
             /\ NoAdjacentFree

\* C37 under first fit and best fit
C37_UnderFirstAndBestFit ==
  (Settled /\ ap # ap_NextFit) => /\ FootersMatch
                                  /\ TilesFrom(heap_start)
                                  /\ NoAdjacentFree

\* under next fit mm_malloc has returned a block that lies inside a free block
\* of the heap
C37_AllocatedInsideFreeBlock ==
  /\ Settled
  /\ ap = ap_NextFit
  /\ last.op = "mm_malloc"
  /\ last.ret \in live
  /\ \E b \in FreeBlocks :
       b < PREV_PTR(last.ret) /\ PREV_PTR(last.ret) < b + SIZE(Word(b))

\* ------------------------------------------------------------------ C38
\* C38: in mj_memmgr.c under the next-fit policy, after every public call on
\* valid arguments next_block is the header of a block of the heap: it lies
\* in heap_start..heap_end and the walk from heap_start meets it.
C38_RoverIsBlockHeader ==
  (Settled /\ ap = ap_NextFit) => next_block \in Blocks

\* mm_free has merged the block of the rover into the free block before it:
\* next_block lies inside a free block of the heap
C38_RoverInsideMergedBlock ==
  /\ Settled
  /\ ap = ap_NextFit
  /\ last.op = "mm_free"
  /\ \E b \in FreeBlocks : b < next_block /\ next_block < b + SIZE(Word(b))

====
